---- MODULE Spec2Model ----
(***************************************************************************)
(* Model of the Zurix privacy relayer backend: the swap registry           *)
(* (swap_transactions), the recovery ledger (recovery_tracking and         *)
(* deposit_counter), the wallet vault (intermediate_wallets and the        *)
(* transfer primitives of WalletService), the deposit monitor              *)
(* (TransactionMonitor) and the mixing coordinator                         *)
(* (EnhancedPrivacyService.executePrivateSwap).                            *)
(*                                                                         *)
(* Money is counted in lamports (1 SOL = 10^9 lamports), time in           *)
(* milliseconds.  Addresses are integers: an intermediate wallet's public  *)
(* key is its wallet id (a positive integer), external accounts are        *)
(* negative.  A transaction signature is the pair <<payer, k>> of the fee  *)
(* payer and the number of transactions it has sent.                       *)
(***************************************************************************)
EXTENDS Integers, Sequences, FiniteSets, TLC

VARIABLES
    clock,          \* wall clock, ms (new Date(), NOW())
    uuidNext,       \* number of UUIDs issued so far (gen_random_uuid, crypto.randomUUID)
    config,         \* process environment: treasury key and relayer fee wallet configured?
    wallets,        \* table intermediate_wallets, indexed by wallet id
    balance,        \* the chain: lamports held by each account
    txCount,        \* the chain: number of transactions each account has paid for
    userSigs,       \* signatures of the users' confirmed deposits
    swaps,          \* table swap_transactions, in insertion order
    recovery,       \* table recovery_tracking, in insertion order
    depositCounter, \* table deposit_counter, row 'main'
    windows,        \* table mixing_windows
    ticks,          \* monitor ticks (checkPendingTransactions invocations)
    runs,           \* coordinator runs (executePrivateSwap invocations)
    calls,          \* POST /api/swap/initiate requests that passed validation
    last            \* the outcome of the last handler that ran

vars == <<clock, uuidNext, config, wallets, balance, txCount, userSigs, swaps,
          recovery, depositCounter, windows, ticks, runs, calls, last>>

----------------------------------------------------------------------------
(* Program constants (src/backend/src/config/constants.ts), in lamports.   *)

LAMPORTS_PER_SOL == 1000000000

\* RELAYER_FEE_PERCENTAGE = 0.0005: the fee is amount / RelayerFeeDivisor
RelayerFeeDivisor == 2000

MIN_SWAP_AMOUNT == 30000000

MIN_SPLIT_AMOUNT == 10000000

OBFUSCATION_RANGE == 1000000

MAX_MIXING_NOTES == 8

DEFAULT_MIXING_NOTES == 6

MIN_MIXING_NOTES == 2

MIXING_WINDOW_DURATION_MS == 60000

EMERGENCY_RECOVERY_THRESHOLD == 50

RECOVERY_FALLBACK_BLOCKS == 150

TRANSACTION_FEE_RESERVE == 100000

\* DEPOSIT_FEE_PERCENTAGE = 0
DEPOSIT_FEE_PERCENTAGE == 0

\* MAX_SWAP_AMOUNT = null (no maximum), written 0
MAX_SWAP_AMOUNT == 0

\* LIMIT 10 of the monitor's SELECT
MonitorLimit == 10

\* connection.getMinimumBalanceForRentExemption(0)
RentExemption == 890880

\* the chain's fee per signature, paid by the fee payer
NetworkFee == 5000

\* "+ 0.00001 // Extra for transaction fee" in the priming checks
PrimeFeeMargin == 10000

\* obfuscateAmount: Math.max(0.0001, ...)
MinObfuscated == 100000

----------------------------------------------------------------------------
(* Bounds of the model.                                                    *)

MaxSwaps == 1

MaxSwapsT == 52

MaxPrepared == 1

MaxDeposits == 1

MaxTicks == 1

MaxTicksM == 2

MaxSwapsS == 11

MaxPreparedS == 2

MaxWalletsV == 2

MaxDepositsV == 2

MaxTxV == 1

MaxCalls == 3

\* swaps initiated while wallets of an earlier run exist
MaxSwapsR == 2

MaxRuns == 2

MaxClock == 120000

\* the chain refuses nothing for being large; the model caps account balances
MaxBalance == 2000000000

----------------------------------------------------------------------------
(* Values.                                                                 *)

NoTime == 0 - 1

NoSig == << >>

NoKey == ""

SourceAddr == 0 - 1

DestOld == 0 - 2

DestNew == 0 - 3

TreasuryAddr == 0 - 4

RelayerFeeAddr == 0 - 5

ExternalAddrs == {SourceAddr, DestOld, DestNew, TreasuryAddr, RelayerFeeAddr}

\* A request field that is absent (undefined, or the empty string).
NoAddr == 0

NoWallet == 0

\* A string new PublicKey() throws on.
BadAddr == 0 - 6

\* An amount parseFloat makes NaN of.
NotANumber == 0 - 7

\* A signature connection.getTransaction knows nothing of.
UnknownSig == <<SourceAddr, 0>>


Keys == {"rk1", "rk2"}

ClockSteps == {60000}

Min(a, b) == IF a <= b THEN a ELSE b

Max(a, b) == IF a >= b THEN a ELSE b

\* crypto.createHash('sha256').update(key).digest('hex')
Sha256(key) == <<"sha256", key>>

----------------------------------------------------------------------------
(* The chain and the wallet vault.  A "vault state" v is the record        *)
(* [wallets, balance, txCount]; the operators below are the transfer       *)
(* primitives of WalletService and keyManager as functions of it.          *)

RECURSIVE SumLamports(_)
SumLamports(outs) ==
    IF outs = << >> THEN 0 ELSE Head(outs).lamports + SumLamports(Tail(outs))

RECURSIVE Credit(_, _)
Credit(bal, outs) ==
    IF outs = << >> THEN bal
    ELSE Credit([bal EXCEPT ![Head(outs).to] = @ + Head(outs).lamports], Tail(outs))

\* The account exists on chain (getAccountInfo returns non-null).
AccountExists(v, addr) == v.balance[addr] > 0

\* Preflight simulation of a transaction of system transfers paid by `from`:
\* the payer covers lamports and fee, and no touched account is left with a
\* balance that is positive but below the rent-exempt minimum.
ChainAccepts(v, from, outs) ==
    LET total == SumLamports(outs)
        after == Credit([v.balance EXCEPT ![from] = @ - total - NetworkFee], outs)
    IN  /\ v.balance[from] >= total + NetworkFee
        /\ \A a \in {from} \cup {outs[i].to : i \in DOMAIN outs} :
              after[a] = 0 \/ after[a] >= RentExemption
        /\ \A a \in DOMAIN after : after[a] <= MaxBalance

\* The signature the next transaction paid by `from` gets.
NextSig(v, from) == <<from, v.txCount[from] + 1>>

\* A wrong version of SendTransaction: on an RPC failure the transaction lands
\* all the same, and the caller is told it failed.
SendTransactionLandsAnyway(v, from, outs, rpcOk) ==
    IF ChainAccepts(v, from, outs)
    THEN [ok |-> rpcOk,
          v  |-> [v EXCEPT
                    !.balance = Credit([v.balance EXCEPT ![from] = @ - SumLamports(outs) - NetworkFee], outs),
                    !.txCount = [@ EXCEPT ![from] = @ + 1]],
          sig |-> IF rpcOk THEN NextSig(v, from) ELSE NoSig]
    ELSE [ok |-> FALSE, v |-> v, sig |-> NoSig]

\* connection.sendRawTransaction + confirmTransaction: [ok, v, sig].
\* rpcOk = FALSE is an RPC failure: the call throws and nothing is sent.
SendTransaction(v, from, outs, rpcOk) ==
    IF rpcOk /\ ChainAccepts(v, from, outs)
    THEN [ok |-> TRUE,
          v  |-> [v EXCEPT
                    !.balance = Credit([v.balance EXCEPT ![from] = @ - SumLamports(outs) - NetworkFee], outs),
                    !.txCount = [@ EXCEPT ![from] = @ + 1]],
          sig |-> NextSig(v, from)]
    ELSE [ok |-> FALSE, v |-> v, sig |-> NoSig]

\* getMinimumFundingAmount: rent exemption + fee reserve.
MinimumFundingAmount == RentExemption + TRANSACTION_FEE_RESERVE

\* fundIntermediateWalletFromTreasury: never throws; returns the vault state.
FundIntermediateWalletFromTreasury(v, treasuryLoaded, dest, rpcOk) ==
    IF ~treasuryLoaded THEN v
    ELSE IF v.balance[dest] >= MinimumFundingAmount THEN v
    ELSE IF v.balance[TreasuryAddr] < MinimumFundingAmount + PrimeFeeMargin THEN v
    ELSE SendTransaction(v, TreasuryAddr,
                         <<[to |-> dest, lamports |-> MinimumFundingAmount]>>, rpcOk).v

\* fundIntermediateWalletFromSource: never throws; returns the vault state.
FundIntermediateWalletFromSource(v, treasuryLoaded, sourceWalletId, dest, rpcOk) ==
    IF sourceWalletId \notin DOMAIN v.wallets
    THEN FundIntermediateWalletFromTreasury(v, treasuryLoaded, dest, rpcOk)
    ELSE IF v.balance[sourceWalletId]
              < MinimumFundingAmount + TRANSACTION_FEE_RESERVE + PrimeFeeMargin
    THEN FundIntermediateWalletFromTreasury(v, treasuryLoaded, dest, rpcOk)
    ELSE LET r == SendTransaction(v, sourceWalletId,
                    <<[to |-> dest, lamports |-> MinimumFundingAmount]>>, rpcOk)
         IN  IF r.ok THEN r.v
             ELSE FundIntermediateWalletFromTreasury(v, treasuryLoaded, dest, rpcOk)

\* storeKeypair: a new row of intermediate_wallets and a new (empty) account.
\* Of the row, is_active is kept; nothing reads created_at and used_at.
StoreKeypair(v, now) ==
    LET id == Len(v.wallets) + 1
    IN  [wallets |-> Append(v.wallets,
                        [is_active |-> TRUE]),
         balance |-> v.balance @@ (id :> 0),
         txCount |-> v.txCount @@ (id :> 0)]

\* generateIntermediateWallet: the id of the new wallet is Len(result.wallets).
GenerateIntermediateWallet(v, treasuryLoaded, fundFromTreasury, now, rpcOk) ==
    LET w == StoreKeypair(v, now)
    IN  IF fundFromTreasury
        THEN FundIntermediateWalletFromTreasury(w, treasuryLoaded, Len(w.wallets), rpcOk)
        ELSE w

\* A wrong version of MarkWalletAsUsed: the row is left as it is.
MarkWalletAsUsedNot(v, walletId, now) == v

\* markWalletAsUsed: UPDATE intermediate_wallets SET used_at = NOW(), is_active = false.
MarkWalletAsUsed(v, walletId, now) ==
    IF walletId \in DOMAIN v.wallets
    THEN [v EXCEPT !.wallets[walletId] = [@ EXCEPT !.is_active = FALSE]]
    ELSE v

\* The amount transferFromIntermediate puts in the transaction.
TransferAmount(v, walletId, amount) ==
    LET minimumReserve  == TRANSACTION_FEE_RESERVE + RentExemption
        availableAmount == Max(0, v.balance[walletId] - minimumReserve)
    IN  Min(amount, availableAmount)

\* transferFromIntermediate: [ok, v, sig, sent]; ok = FALSE is a throw.
TransferFromIntermediate(v, walletId, destination, amount, rpcOk) ==
    LET fail == [ok |-> FALSE, v |-> v, sig |-> NoSig, sent |-> 0]
    IN  IF walletId \notin DOMAIN v.wallets THEN fail
        ELSE LET transferAmount == TransferAmount(v, walletId, amount)
             IN  IF transferAmount <= 0 THEN fail
                 ELSE IF ~AccountExists(v, destination) /\ transferAmount < RentExemption
                 THEN fail
                 ELSE LET r == SendTransaction(v, walletId,
                                  <<[to |-> destination, lamports |-> transferAmount]>>, rpcOk)
                      IN  IF r.ok
                          THEN [ok |-> TRUE, v |-> r.v, sig |-> r.sig, sent |-> transferAmount]
                          ELSE [fail EXCEPT !.v = r.v]

\* One bit of MulDivQR: from h = <<floor(a * k / c), (a * k) mod c>> to the
\* same pair for 2k (odd = 0) or for 2k + 1 (odd = 1).
MulDivBit(h, a, c, odd) ==
    LET c1  == IF h[2] >= c - h[2] THEN 1 ELSE 0
        r1  == IF c1 = 1 THEN h[2] - (c - h[2]) ELSE h[2] + h[2]
        q1  == 2 * h[1] + c1
        am  == a % c
        c2  == IF r1 >= c - am THEN 1 ELSE 0
        r2  == IF c2 = 1 THEN r1 - (c - am) ELSE r1 + am
        q2  == q1 + (a \div c) + c2
    IN  IF odd = 1 THEN <<q2, r2>> ELSE <<q1, r1>>

\* <<floor(a * b / c), (a * b) mod c>> for 0 <= a, b and 0 < c, computed
\* bit by bit so that no intermediate value exceeds 2 * max(a, c).  The pair
\* for b \div 2 is computed once.
RECURSIVE MulDivQR(_, _, _)
MulDivQR(a, b, c) ==
    IF b = 0 THEN <<0, 0>>
    ELSE CHOOSE r \in {MulDivBit(h, a, c, b % 2) : h \in {MulDivQR(a, b \div 2, c)}} : TRUE

MulDiv(a, b, c) == MulDivQR(a, b, c)[1]

\* A wrong version of ScaleTransfers: the amounts are sent as requested.
ScaleTransfersNot(transfers, availableAmount, totalRequested) == transfers

\* transfers.map(t => t.amount * scaleFactor), scaleFactor = available / requested
ScaleTransfers(transfers, availableAmount, totalRequested) ==
    [i \in DOMAIN transfers |->
        [to |-> transfers[i].to,
         lamports |-> MulDiv(transfers[i].lamports, availableAmount, totalRequested)]]

\* transferFromIntermediateMultiple: [ok, v, sig, sent]; ok = FALSE is a throw.
\* A missing destination account only logs a warning.
TransferFromIntermediateMultiple(v, walletId, transfers, rpcOk) ==
    LET fail == [ok |-> FALSE, v |-> v, sig |-> NoSig, sent |-> << >>]
    IN  IF walletId \notin DOMAIN v.wallets THEN fail
        ELSE LET minimumReserve  == TRANSACTION_FEE_RESERVE + RentExemption
                 availableAmount == Max(0, v.balance[walletId] - minimumReserve)
                 totalRequested  == SumLamports(transfers)
                 scaled == IF availableAmount < totalRequested
                           THEN ScaleTransfers(transfers, availableAmount, totalRequested)
                           ELSE transfers
                 r == SendTransaction(v, walletId, scaled, rpcOk)
             IN  IF r.ok THEN [ok |-> TRUE, v |-> r.v, sig |-> r.sig, sent |-> scaled]
                 ELSE [fail EXCEPT !.v = r.v]

----------------------------------------------------------------------------
(* The swap registry: table swap_transactions.                             *)

Vault == [wallets |-> wallets, balance |-> balance, txCount |-> txCount]

HasSwap(sw, tid) == \E i \in DOMAIN sw : sw[i].transaction_id = tid

SwapOf(sw, tid) == sw[CHOOSE i \in DOMAIN sw : sw[i].transaction_id = tid]

SwapIds == {swaps[i].transaction_id : i \in DOMAIN swaps}

\* amountNum * RELAYER_FEE_PERCENTAGE, stored in a DECIMAL(20, 9) column
RelayerFee(amount) == (amount + RelayerFeeDivisor \div 2) \div RelayerFeeDivisor

\* createSwapTransaction: INSERT INTO swap_transactions ... 'pending' RETURNING transaction_id
CreateSwapTransaction(sw, tid, sourceWallet, destinationWallet, amount, intermediateWalletId, sourceTxSignature, relayerFee, now) ==
    Append(sw, [transaction_id         |-> tid,
                source_wallet          |-> sourceWallet,
                destination_wallet     |-> destinationWallet,
                amount_sol             |-> amount,
                status                 |-> "pending",
                intermediate_wallet_id |-> intermediateWalletId,
                steps                  |-> << >>,
                source_tx_signature    |-> sourceTxSignature,
                final_tx_signature     |-> NoSig,
                relayer_fee            |-> relayerFee,
                created_at             |-> now,
                completed_at           |-> NoTime,
                error_message          |-> ""])

\* updateTransactionStatus: UPDATE swap_transactions SET status = $1 WHERE transaction_id = $2
UpdateTransactionStatus(sw, tid, status) ==
    [i \in DOMAIN sw |->
        IF sw[i].transaction_id = tid THEN [sw[i] EXCEPT !.status = status] ELSE sw[i]]

\* UPDATE swap_transactions SET status = 'completed', steps, final_tx_signature,
\* completed_at = NOW() WHERE transaction_id = $3
CompleteTransaction(sw, tid, steps, finalTxSignature, now) ==
    [i \in DOMAIN sw |->
        IF sw[i].transaction_id = tid
        THEN [sw[i] EXCEPT !.status = "completed", !.steps = steps,
                           !.final_tx_signature = finalTxSignature,
                           !.completed_at = now]
        ELSE sw[i]]

\* UPDATE swap_transactions SET status = 'failed', error_message = $1 WHERE transaction_id = $2
FailTransaction(sw, tid, message) ==
    [i \in DOMAIN sw |->
        IF sw[i].transaction_id = tid
        THEN [sw[i] EXCEPT !.status = "failed", !.error_message = message]
        ELSE sw[i]]

\* A wrong version of RecoverTransaction: the recovery writes `completed`.
RecoverTransactionCompletes(sw, tid, txSignature, now) ==
    [i \in DOMAIN sw |->
        IF sw[i].transaction_id = tid
        THEN [sw[i] EXCEPT !.status = "completed",
                           !.final_tx_signature = txSignature,
                           !.completed_at = now]
        ELSE sw[i]]

\* UPDATE swap_transactions SET status = 'recovered', final_tx_signature = $1,
\* completed_at = NOW() WHERE transaction_id = $2
RecoverTransaction(sw, tid, txSignature, now) ==
    [i \in DOMAIN sw |->
        IF sw[i].transaction_id = tid
        THEN [sw[i] EXCEPT !.status = "recovered",
                           !.final_tx_signature = txSignature,
                           !.completed_at = now]
        ELSE sw[i]]

----------------------------------------------------------------------------
(* The recovery ledger: tables recovery_tracking and deposit_counter.      *)
(* The columns last_checked_at and created_at of recovery_tracking are     *)
(* written and never read; they are left out.                              *)

HasRecovery(rec, tid) == \E i \in DOMAIN rec : rec[i].transaction_id = tid

RecoveryOf(rec, tid) == rec[CHOOSE i \in DOMAIN rec : rec[i].transaction_id = tid]

\* initializeRecovery: INSERT ... ON CONFLICT (transaction_id) DO UPDATE
\* SET deposit_count_at_creation = EXCLUDED.deposit_count_at_creation
InitializeRecovery(rec, counter, tid, recoveryKeyHash) ==
    IF HasRecovery(rec, tid)
    THEN [i \in DOMAIN rec |->
            IF rec[i].transaction_id = tid
            THEN [rec[i] EXCEPT !.deposit_count_at_creation = counter]
            ELSE rec[i]]
    ELSE Append(rec, [transaction_id            |-> tid,
                      deposit_count_at_creation |-> counter,
                      recovery_key_hash         |-> recoveryKeyHash,
                      recovery_available        |-> FALSE])

\* A wrong version of IncrementDepositCounter: the update is lost.
IncrementDepositCounterNot(counter) == counter

\* incrementDepositCounter: UPDATE deposit_counter SET total_deposits =
\* total_deposits + 1 WHERE counter_id = 'main', one statement.
IncrementDepositCounter(counter) == counter + 1

\* UPDATE recovery_tracking SET recovery_available = true WHERE transaction_id = $1
SetRecoveryAvailable(rec, tid) ==
    [i \in DOMAIN rec |->
        IF rec[i].transaction_id = tid
        THEN [rec[i] EXCEPT !.recovery_available = TRUE]
        ELSE rec[i]]

\* RECOVERY_FALLBACK_BLOCKS * 0.4
FallbackSeconds == (RECOVERY_FALLBACK_BLOCKS * 4) \div 10

\* depositsSinceCreation >= EMERGENCY_RECOVERY_THRESHOLD
ThresholdReached(depositsSinceCreation) ==
    depositsSinceCreation >= EMERGENCY_RECOVERY_THRESHOLD

\* A wrong version of TimeoutReached: strictly more than the fallback.
TimeoutReachedStrict(ageMs) == ageMs \div 1000 > FallbackSeconds

\* ageSeconds >= fallbackSeconds, ageSeconds = Math.floor(ageMs / 1000)
TimeoutReached(ageMs) == ageMs \div 1000 >= FallbackSeconds

\* The time-based clause looks at swaps whose status is 'pending'.
TimeoutApplies(row) == row.status = "pending"

\* checkRecoveryAvailability: [available, reason, rec], rec the table after the call.
CheckRecoveryAvailability(rec, sw, counter, now, tid) ==
    IF ~HasRecovery(rec, tid)
    THEN [available |-> FALSE, reason |-> "none", rec |-> rec]
    ELSE LET recoveryData == RecoveryOf(rec, tid)
             depositsSinceCreation == counter - recoveryData.deposit_count_at_creation
         IN  IF ThresholdReached(depositsSinceCreation)
             THEN [available |-> TRUE, reason |-> "threshold",
                   rec |-> SetRecoveryAvailable(rec, tid)]
             ELSE IF /\ HasSwap(sw, tid)
                     /\ TimeoutApplies(SwapOf(sw, tid))
                     /\ TimeoutReached(now - SwapOf(sw, tid).created_at)
             THEN [available |-> TRUE, reason |-> "timeout",
                   rec |-> SetRecoveryAvailable(rec, tid)]
             ELSE [available |-> FALSE, reason |-> "none", rec |-> rec]

\* RecoveryService.executeRecovery as a function of the state:
\* [success, error, sent, sig, rec, sw, v].
RecoveryExecution(rec, sw, v, counter, now, tid, recoveryKey, destinationWallet, rpcOk) ==
    LET check == CheckRecoveryAvailability(rec, sw, counter, now, tid)
        none  == [success |-> FALSE, error |-> "", sent |-> 0, sig |-> NoSig,
                  rec |-> check.rec, sw |-> sw, v |-> v]
    IN  IF ~check.available
        THEN [none EXCEPT !.error = "Recovery not available"]
        ELSE IF ~HasRecovery(check.rec, tid)
        THEN [none EXCEPT !.error = "Recovery record not found"]
        ELSE IF RecoveryOf(check.rec, tid).recovery_key_hash # Sha256(recoveryKey)
        THEN [none EXCEPT !.error = "Invalid recovery key"]
        ELSE IF ~HasSwap(sw, tid)
        THEN [none EXCEPT !.error = "Transaction not found"]
        ELSE LET txData == SwapOf(sw, tid)
                 amountAfterFee == txData.amount_sol - txData.relayer_fee
                 t == TransferFromIntermediate(v, txData.intermediate_wallet_id,
                                               destinationWallet, amountAfterFee, rpcOk)
             IN  IF t.ok
                 THEN [success |-> TRUE, error |-> "", sent |-> t.sent, sig |-> t.sig,
                       rec |-> check.rec,
                       sw  |-> RecoverTransaction(sw, tid, t.sig, now),
                       v   |-> t.v]
                 ELSE [none EXCEPT !.error = "Transfer failed", !.v = t.v]

----------------------------------------------------------------------------
(* The control surface (SwapController) and the environment.               *)

\* The database after initializeDatabase, an idle chain, and the process
\* environment (TREASURY_WALLET_PRIVATE_KEY, RELAYER_FEE_WALLET).
TreasuryFunds == 3 * MinimumFundingAmount

\* The deployments considered: neither a treasury key nor a fee wallet in the
\* environment, or both.
Deployments == {[treasury |-> FALSE, feeWallet |-> FALSE],
                [treasury |-> TRUE, feeWallet |-> TRUE]}

Init ==
    /\ clock = 0
    /\ uuidNext = 0
    /\ config \in Deployments
    /\ wallets = << >>
    /\ balance = [a \in ExternalAddrs |->
                    IF a = TreasuryAddr /\ config.treasury THEN TreasuryFunds
                    ELSE IF a \in {DestOld, RelayerFeeAddr} THEN RentExemption
                    ELSE 0]
    /\ txCount = [a \in ExternalAddrs |-> 0]
    /\ userSigs = {}
    /\ swaps = << >>
    /\ recovery = << >>
    /\ depositCounter = 0
    /\ windows = << >>
    /\ ticks = << >>
    /\ runs = << >>
    /\ calls = << >>
    /\ last = [op |-> "init"]

\* Time passes.
AdvanceClock(d) ==
    /\ clock + d <= MaxClock
    /\ clock' = clock + d
    /\ calls' = calls
    /\ last' = [op |-> "clock"]
    /\ UNCHANGED <<uuidNext, config, wallets, balance, txCount, userSigs, swaps,
                   recovery, depositCounter, windows, ticks, runs>>

\* A wrong version of AmountRejected: an amount of exactly the minimum is
\* rejected.
AmountRejectedAtMinimum(amount) ==
    \/ amount = NotANumber
    \/ amount <= MIN_SWAP_AMOUNT

\* The validation of the amount, in both handlers: parseFloat gives NaN or a
\* number that is not positive, or the amount is below the minimum (there is no
\* maximum: MAX_SWAP_AMOUNT is null).
AmountRejected(amount) ==
    \/ amount = NotANumber
    \/ amount <= 0
    \/ amount < MIN_SWAP_AMOUNT

\* new PublicKey(sourceWallet); new PublicKey(destinationWallet) throws.
AddressesRejected(sourceWallet, destinationWallet) ==
    sourceWallet = BadAddr \/ destinationWallet = BadAddr

\* prepareSwap answers 400.
PrepareRejects(sourceWallet, destinationWallet, amount) ==
    \/ sourceWallet = NoAddr \/ destinationWallet = NoAddr \/ amount = 0
    \/ AddressesRejected(sourceWallet, destinationWallet)
    \/ AmountRejected(amount)

\* initiateSwap answers 400 before it looks for the source transaction.
InitiateRejects(sourceWallet, destinationWallet, amount, sourceTxSignature, intermediateWalletId) ==
    \/ sourceWallet = NoAddr \/ destinationWallet = NoAddr \/ amount = 0
    \/ sourceTxSignature = NoSig \/ intermediateWalletId = NoWallet
    \/ AddressesRejected(sourceWallet, destinationWallet)
    \/ AmountRejected(amount)

\* crypto.randomBytes(32).toString('hex') of prepareSwap: every call draws a
\* value of its own; the call that allocates wallet 1 draws "rk1".
IssuedKey(walletId) == IF walletId = 1 THEN "rk1" ELSE "rk2"

\* POST /api/swap/prepare: allocates an intermediate wallet (funded from the
\* treasury when one is loaded) and issues a recovery key.
PrepareSwap(sourceWallet, destinationWallet, amount, rpcOk) ==
    IF PrepareRejects(sourceWallet, destinationWallet, amount)
    THEN /\ calls' = calls
         /\ last' = [op |-> "prepare", ok |-> FALSE, status |-> 400,
                     request |-> <<sourceWallet, destinationWallet, amount>>]
         /\ UNCHANGED <<clock, uuidNext, config, wallets, balance, txCount, userSigs,
                        swaps, recovery, depositCounter, windows, ticks, runs>>
    ELSE LET v == GenerateIntermediateWallet(Vault, config.treasury, TRUE, clock, rpcOk)
         IN  /\ wallets' = v.wallets
             /\ balance' = v.balance
             /\ txCount' = v.txCount
             /\ calls' = calls
             /\ last' = [op |-> "prepare", ok |-> TRUE, status |-> 200,
                         walletId |-> Len(v.wallets),
                         recoveryKey |-> IssuedKey(Len(v.wallets)),
                         request |-> <<sourceWallet, destinationWallet, amount>>]
             /\ UNCHANGED <<clock, uuidNext, config, userSigs, swaps, recovery,
                            depositCounter, windows, ticks, runs>>

\* The user sends lamports from the source account to an intermediate wallet's
\* address; the transaction is confirmed.  The user's own balance is not tracked.
UserDeposit(walletId, lamports) ==
    /\ walletId \in DOMAIN wallets
    /\ balance[walletId] + lamports <= MaxBalance
    /\ balance' = [balance EXCEPT ![walletId] = @ + lamports]
    /\ txCount' = [txCount EXCEPT ![SourceAddr] = @ + 1]
    /\ userSigs' = userSigs \cup {<<SourceAddr, txCount[SourceAddr] + 1>>}
    /\ calls' = calls
    /\ last' = [op |-> "deposit"]
    /\ UNCHANGED <<clock, uuidNext, config, wallets, swaps, recovery,
                   depositCounter, windows, ticks, runs>>

\* A wrong version of WithRecoveryKey: a record is opened for every swap.
WithRecoveryKeyNot(recoveryKey) == TRUE

\* if (recoveryKey): the field is present and not the empty string.
WithRecoveryKey(recoveryKey) == recoveryKey # NoKey

\* POST /api/swap/initiate, start to end.
InitiateSwap(sourceWallet, destinationWallet, amount, sourceTxSignature, intermediateWalletId, recoveryKey) ==
    LET reject ==
            /\ calls' = calls
            /\ last' = [op |-> "initiate", ok |-> FALSE]
            /\ UNCHANGED <<clock, uuidNext, config, wallets, balance, txCount, userSigs,
                           swaps, recovery, depositCounter, windows, ticks, runs>>
    IN  IF InitiateRejects(sourceWallet, destinationWallet, amount, sourceTxSignature,
                           intermediateWalletId) THEN reject
        \* connection.getTransaction(sourceTxSignature, confirmed) is null
        ELSE IF sourceTxSignature \notin userSigs THEN reject
        \* the INSERT violates the foreign key on intermediate_wallet_id
        ELSE IF intermediateWalletId \notin DOMAIN wallets THEN reject
        ELSE LET transactionId == uuidNext + 1
                 relayerFee    == RelayerFee(amount)
             IN  /\ uuidNext' = transactionId
                 /\ swaps' = CreateSwapTransaction(swaps, transactionId, sourceWallet,
                                 destinationWallet, amount, intermediateWalletId,
                                 sourceTxSignature, relayerFee, clock)
                 /\ recovery' = IF WithRecoveryKey(recoveryKey)
                                THEN InitializeRecovery(recovery, depositCounter,
                                                        transactionId, Sha256(recoveryKey))
                                ELSE recovery
                 /\ depositCounter' = IncrementDepositCounter(depositCounter)
                 /\ calls' = calls
                 /\ last' = [op |-> "initiate", ok |-> TRUE, tid |-> transactionId,
                             recoveryKey |-> recoveryKey]
                 /\ UNCHANGED <<clock, config, wallets, balance, txCount, userSigs,
                                windows, ticks, runs>>

\* GET /api/swap/recovery/:transactionId
CheckRecovery(tid) ==
    LET check == CheckRecoveryAvailability(recovery, swaps, depositCounter, clock, tid)
    IN  /\ recovery' = check.rec
        /\ calls' = calls
        /\ last' = [op |-> "checkRecovery", tid |-> tid,
                    available |-> check.available, reason |-> check.reason]
        /\ UNCHANGED <<clock, uuidNext, config, wallets, balance, txCount, userSigs,
                       swaps, depositCounter, windows, ticks, runs>>

\* Whether a coordinator run for the monitor's row `tid` has begun.
RunBegun(tid) == \E r \in DOMAIN runs : runs[r].row = tid

\* POST /api/swap/recovery/:transactionId with a recovery key and a valid
\* destination address.
ExecuteRecovery(tid, recoveryKey, destinationWallet, rpcOk) ==
    LET x == RecoveryExecution(recovery, swaps, Vault, depositCounter, clock, tid,
                               recoveryKey, destinationWallet, rpcOk)
    IN  /\ recovery' = x.rec
        /\ swaps' = x.sw
        /\ wallets' = x.v.wallets
        /\ balance' = x.v.balance
        /\ txCount' = x.v.txCount
        /\ calls' = calls
        /\ last' = [op |-> "executeRecovery", tid |-> tid, success |-> x.success,
                    error |-> x.error, sent |-> x.sent, sig |-> x.sig,
                    destination |-> destinationWallet,
                    keyOk |-> (HasRecovery(recovery, tid) /\
                               RecoveryOf(recovery, tid).recovery_key_hash = Sha256(recoveryKey)),
                    before |-> SwapOf(swaps, tid),
                    balanceBefore |-> balance[SwapOf(swaps, tid).intermediate_wallet_id],
                    received |-> x.v.balance[destinationWallet] - balance[destinationWallet],
                    runBegun |-> RunBegun(tid)]
        /\ UNCHANGED <<clock, uuidNext, config, userSigs, depositCounter, windows,
                       ticks, runs>>

----------------------------------------------------------------------------
(* The mixing coordinator: EnhancedPrivacyService.  Sleeps (addPrivacyDelay)*)
(* take no step of their own: the clock may advance, and any other handler  *)
(* may run, between two steps of a run.  The timestamp of a step record is  *)
(* left out.                                                                *)

SplitPercents == {15, 35}

ObfuscationDraws == {0 - OBFUSCATION_RANGE, OBFUSCATION_RANGE - 1}

\* A wrong version of HopChoices: three hops may be drawn.
HopChoicesNot == {1, 3}

HopChoices == {1, 2}

\* shouldSplit = amount > MIN_SPLIT_AMOUNT * 2
ShouldSplit(amount) == amount > MIN_SPLIT_AMOUNT * 2

\* Math.floor(amount / 0.2) in doubles: 0.2 is a little more than a fifth, so
\* the quotient of 1.2 is 5.999999999999999 and that of 1.4 is
\* 6.999999999999999; every other amount of whole lamports gives the floor of
\* the exact quotient.
FloorOfFifths(amount) ==
    IF amount \in {6 * (LAMPORTS_PER_SOL \div 5), 7 * (LAMPORTS_PER_SOL \div 5)}
    THEN amount \div (LAMPORTS_PER_SOL \div 5) - 1
    ELSE amount \div (LAMPORTS_PER_SOL \div 5)

\* targetNotes by band (enhancedPrivacyService.ts, executePrivateSwap step 2)
TargetNotes(amount) ==
    IF amount > LAMPORTS_PER_SOL
    THEN Min(MAX_MIXING_NOTES, FloorOfFifths(amount))
    ELSE IF amount > LAMPORTS_PER_SOL \div 2 THEN DEFAULT_MIXING_NOTES
    ELSE IF amount > LAMPORTS_PER_SOL \div 10 THEN Min(4, DEFAULT_MIXING_NOTES)
    ELSE MIN_MIXING_NOTES

\* The number of notes of a run.
NoteCount(amount) == IF ShouldSplit(amount) THEN TargetNotes(amount) ELSE 1

\* The amounts inside calculateSplits are doubles and carry fractions of a
\* lamport: <<w, f>> is w + f / SubLamport lamports, 0 <= f < SubLamport.
\* Seven splits at percentages that are multiples of 5 are exact.
SubLamport == 20 * 20 * 20 * 20 * 20 * 20 * 20

AmtLess(a, b) == a[1] < b[1] \/ (a[1] = b[1] /\ a[2] < b[2])

AmtMax(a, b) == IF AmtLess(a, b) THEN b ELSE a

AmtSub(a, b) ==
    IF a[2] >= b[2] THEN <<a[1] - b[1], a[2] - b[2]>>
    ELSE <<a[1] - b[1] - 1, a[2] + (SubLamport - b[2])>>

\* remaining * splitPercent
AmtTimesPercent(a, pct) ==
    LET h == MulDivQR(a[1], pct, 100)
        f == h[2] * (SubLamport \div 100) + MulDiv(a[2], pct, 100)
    IN  <<h[1] + f \div SubLamport, f % SubLamport>>

\* A wrong version of FinalSplit: the split is taken as it is.
FinalSplitNot(split) == split

\* Math.max(split, MIN_SPLIT_AMOUNT)
FinalSplit(split) == AmtMax(split, <<MIN_SPLIT_AMOUNT, 0>>)

\* parseFloat(x.toFixed(9)), in lamports: the nearest whole lamport
ToFixed9(a) == IF a[2] >= SubLamport - a[2] THEN a[1] + 1 ELSE a[1]

RECURSIVE SplitLoop(_, _, _, _, _)
SplitLoop(remaining, k, numSplits, pct, acc) ==
    IF k > numSplits - 1 THEN Append(acc, ToFixed9(remaining))
    ELSE LET split == IF remaining[1] < 0 \/ remaining = <<0, 0>> THEN <<0, 0>>
                      ELSE AmtTimesPercent(remaining, pct[k])
             finalSplit == FinalSplit(split)
         IN  SplitLoop(AmtSub(remaining, finalSplit), k + 1, numSplits, pct,
                       Append(acc, ToFixed9(finalSplit)))

SwapElems(seq, a, b) == [seq EXCEPT ![a] = seq[b], ![b] = seq[a]]

\* Fisher-Yates, i from the last index down to 1 (0-based), js[i] in 0..i
RECURSIVE ShuffleFrom(_, _, _)
ShuffleFrom(seq, i, js) ==
    IF i < 1 THEN seq ELSE ShuffleFrom(SwapElems(seq, i + 1, js[i] + 1), i - 1, js)

\* calculateSplits(amount, targetNotes) with the random draws pct and js
CalculateSplits(amount, numSplits, pct, js) ==
    ShuffleFrom(SplitLoop(<<amount, 0>>, 1, numSplits, pct, << >>), numSplits - 1, js)

PercentDraws(n) == [1 .. n - 1 -> SplitPercents]

ShuffleDraws(n) == {js \in [1 .. n - 1 -> 0 .. n - 1] : \A i \in 1 .. n - 1 : js[i] <= i}

\* A wrong version of ObfuscateAmount: the offset is taken twice.
ObfuscateAmountNot(amount, draw) == Max(MinObfuscated, amount + 2 * draw)

\* obfuscateAmount with the random draw in [-OBFUSCATION_RANGE, OBFUSCATION_RANGE)
ObfuscateAmount(amount, draw) == Max(MinObfuscated, amount + draw)

\* getOrCreateMixingWindow: the window id is the start of the clock's bucket.
WindowId(now) == (now \div MIXING_WINDOW_DURATION_MS) * MIXING_WINDOW_DURATION_MS

HasWindow(ws, wid) == \E i \in DOMAIN ws : ws[i].window_id = wid

GetOrCreateMixingWindow(ws, now) ==
    IF HasWindow(ws, WindowId(now)) THEN ws
    ELSE Append(ws, [window_id |-> WindowId(now),
                     end_time |-> WindowId(now) + MIXING_WINDOW_DURATION_MS,
                     total_amount |-> 0, transaction_count |-> 0])

\* recordMixingDeposit
RecordMixingDeposit(ws, wid, amount) ==
    [i \in DOMAIN ws |->
        IF ws[i].window_id = wid
        THEN [ws[i] EXCEPT !.total_amount = @ + amount, !.transaction_count = @ + 1]
        ELSE ws[i]]

\* recordMixingWithdrawal
RecordMixingWithdrawal(ws, wid) ==
    [i \in DOMAIN ws |->
        IF ws[i].window_id = wid
        THEN [ws[i] EXCEPT !.transaction_count = @ + 1]
        ELSE ws[i]]

RECURSIVE SumAmounts(_)
SumAmounts(ws) == IF ws = << >> THEN 0 ELSE Head(ws).amount + SumAmounts(Tail(ws))

\* A wrong version of RunTransactionId: the run works under the id of the row
\* the monitor selected.
RunTransactionIdOfRow(rowTid, fresh) == rowTid

\* const transactionId = crypto.randomUUID(): a fresh id, whatever row the
\* monitor selected.
RunTransactionId(rowTid, fresh) == fresh

Step(n, from, to, sig, amount) ==
    [step |-> n, from |-> from, to |-> to, txSignature |-> sig, amount |-> amount]

Terminal(r) == runs[r].pc \in {"done", "failed"}

\* The catch block of executePrivateSwap: the registry update and the rethrow.
RunFails(r, v, message) ==
    /\ runs' = [runs EXCEPT ![r] = [@ EXCEPT !.pc = "failed", !.error = message]]
    /\ swaps' = FailTransaction(swaps, runs[r].transactionId, message)
    /\ wallets' = v.wallets
    /\ balance' = v.balance
    /\ txCount' = v.txCount
    /\ calls' = calls
    /\ last' = [op |-> "run", run |-> r, ok |-> FALSE]

\* Step 4 of executePrivateSwap, one iteration: allocate and prime the deposit
\* wallet of note i, transfer the note to it, record the step and the window
\* deposit; after the last note, mark the first intermediate wallet used.
RunDeposit(r, rpcPrime, rpcSend) ==
    /\ r \in DOMAIN runs
    /\ runs[r].pc = "deposit"
    /\ LET run == runs[r]
           splitAmount == run.splits[run.i + 1]
           v1 == GenerateIntermediateWallet(Vault, config.treasury, FALSE, clock, TRUE)
           nw == Len(v1.wallets)
           v2 == FundIntermediateWalletFromSource(v1, config.treasury,
                                                  run.intermediateWalletId, nw, rpcPrime)
           t  == TransferFromIntermediate(v2, run.intermediateWalletId, nw, splitAmount, rpcSend)
           isLast == run.i + 1 = Len(run.splits)
           v3 == IF isLast THEN MarkWalletAsUsed(t.v, run.intermediateWalletId, clock) ELSE t.v
       IN  IF ~t.ok
           THEN RunFails(r, t.v, "deposit transfer failed") /\ UNCHANGED windows
           ELSE /\ runs' = [runs EXCEPT ![r] = [@ EXCEPT
                       !.steps = Append(@, Step(2 + run.i, run.intermediateWalletId, nw,
                                                t.sig, splitAmount)),
                       !.poolDeposits = Append(@, [walletId |-> nw, amount |-> splitAmount]),
                       !.i  = IF isLast THEN 0 ELSE run.i + 1,
                       !.pc = IF isLast THEN "withdraw" ELSE "deposit"]]
                /\ windows' = RecordMixingDeposit(windows, run.mixingWindow, splitAmount)
                /\ wallets' = v3.wallets
                /\ balance' = v3.balance
                /\ txCount' = v3.txCount
                /\ swaps' = swaps
                /\ calls' = calls
                /\ last' = [op |-> "run", run |-> r, ok |-> TRUE,
                            sent |-> t.sent, sentFee |-> 0]
    /\ UNCHANGED <<clock, uuidNext, config, userSigs, recovery, depositCounter, ticks>>

\* Step 6, one iteration: allocate and prime the withdrawal wallet of note i,
\* transfer the obfuscated amount to it, mark the deposit wallet used.  After
\* the last note: draw the hop count and, with several notes, allocate and
\* prime the combined wallet.
RunWithdraw(r, draw, hops, rpcPrime, rpcSend) ==
    /\ r \in DOMAIN runs
    /\ runs[r].pc = "withdraw"
    /\ LET run == runs[r]
           deposit == run.poolDeposits[run.i + 1]
           v1 == GenerateIntermediateWallet(Vault, config.treasury, FALSE, clock, TRUE)
           nw == Len(v1.wallets)
           v2 == FundIntermediateWalletFromSource(v1, config.treasury, deposit.walletId,
                                                  nw, rpcPrime)
           obfuscatedAmount == ObfuscateAmount(deposit.amount, draw)
           t  == TransferFromIntermediate(v2, deposit.walletId, nw, obfuscatedAmount, rpcSend)
           v3 == MarkWalletAsUsed(t.v, deposit.walletId, clock)
           isLast == run.i + 1 = Len(run.poolDeposits)
           ww == Append(run.withdrawalWallets, [walletId |-> nw, amount |-> obfuscatedAmount])
           several == Len(ww) > 1
           v4 == IF isLast /\ several
                 THEN GenerateIntermediateWallet(v3, config.treasury, FALSE, clock, TRUE)
                 ELSE v3
           v5 == IF isLast /\ several
                 THEN FundIntermediateWalletFromSource(v4, config.treasury, ww[1].walletId,
                                                       Len(v4.wallets), rpcPrime)
                 ELSE v4
       IN  IF ~t.ok
           THEN RunFails(r, t.v, "withdrawal transfer failed")
           ELSE /\ runs' = [runs EXCEPT ![r] = [@ EXCEPT
                       !.steps = Append(@, Step(2 + Len(run.splits) + run.i, deposit.walletId,
                                                nw, t.sig, obfuscatedAmount)),
                       !.withdrawalWallets = ww,
                       !.i  = IF isLast THEN 1 ELSE run.i + 1,
                       !.finalHops = IF isLast THEN hops ELSE @,
                       !.hop = 0,
                       !.currentWalletId = IF isLast THEN ww[1].walletId ELSE @,
                       !.currentAmount = IF isLast THEN SumAmounts(ww) ELSE @,
                       !.combinedWallet = IF isLast /\ several THEN Len(v4.wallets) ELSE @,
                       !.pc = IF ~isLast THEN "withdraw"
                              ELSE IF several THEN "combine" ELSE "hop"]]
                /\ wallets' = v5.wallets
                /\ balance' = v5.balance
                /\ txCount' = v5.txCount
                /\ swaps' = swaps
                /\ calls' = calls
                /\ last' = [op |-> "run", run |-> r, ok |-> TRUE,
                            sent |-> t.sent, sentFee |-> 0]
    /\ UNCHANGED <<clock, uuidNext, config, userSigs, recovery, depositCounter,
                   windows, ticks>>

\* Step 7, combining: one transfer of withdrawal wallet i (i >= 1, 0-based)
\* into the combined wallet.
RunCombine(r, rpcSend) ==
    /\ r \in DOMAIN runs
    /\ runs[r].pc = "combine"
    /\ LET run == runs[r]
           w  == run.withdrawalWallets[run.i + 1]
           n  == Len(run.withdrawalWallets)
           t  == TransferFromIntermediate(Vault, w.walletId, run.combinedWallet, w.amount, rpcSend)
           v1 == MarkWalletAsUsed(t.v, w.walletId, clock)
       IN  IF ~t.ok
           THEN RunFails(r, t.v, "combine transfer failed")
           ELSE /\ runs' = [runs EXCEPT ![r] = [@ EXCEPT
                       !.steps = Append(@, Step(2 + Len(run.splits) * 2 + run.i, w.walletId,
                                                run.combinedWallet, t.sig, w.amount)),
                       !.i  = run.i + 1,
                       !.pc = IF run.i + 1 < n THEN "combine" ELSE "combineFirst"]]
                /\ wallets' = v1.wallets
                /\ balance' = v1.balance
                /\ txCount' = v1.txCount
                /\ swaps' = swaps
                /\ calls' = calls
                /\ last' = [op |-> "run", run |-> r, ok |-> TRUE,
                            sent |-> t.sent, sentFee |-> 0]
    /\ UNCHANGED <<clock, uuidNext, config, userSigs, recovery, depositCounter,
                   windows, ticks>>

\* Step 7, combining: the transfer of the first withdrawal wallet into the
\* combined wallet, which becomes the current wallet.
RunCombineFirst(r, rpcSend) ==
    /\ r \in DOMAIN runs
    /\ runs[r].pc = "combineFirst"
    /\ LET run == runs[r]
           w  == run.withdrawalWallets[1]
           t  == TransferFromIntermediate(Vault, w.walletId, run.combinedWallet, w.amount, rpcSend)
           v1 == MarkWalletAsUsed(t.v, w.walletId, clock)
       IN  IF ~t.ok
           THEN RunFails(r, t.v, "combine transfer failed")
           ELSE /\ runs' = [runs EXCEPT ![r] = [@ EXCEPT
                       !.steps = Append(@, Step(2 + Len(run.splits) * 2, w.walletId,
                                                run.combinedWallet, t.sig, w.amount)),
                       !.currentWalletId = run.combinedWallet,
                       !.pc = "hop"]]
                /\ wallets' = v1.wallets
                /\ balance' = v1.balance
                /\ txCount' = v1.txCount
                /\ swaps' = swaps
                /\ calls' = calls
                /\ last' = [op |-> "run", run |-> r, ok |-> TRUE,
                            sent |-> t.sent, sentFee |-> 0]
    /\ UNCHANGED <<clock, uuidNext, config, userSigs, recovery, depositCounter,
                   windows, ticks>>

\* Step 7, one routing hop: allocate and prime the hop wallet, transfer
\* currentAmount to it, mark the current wallet used.
RunHop(r, rpcPrime, rpcSend) ==
    /\ r \in DOMAIN runs
    /\ runs[r].pc = "hop"
    /\ LET run == runs[r]
           v1 == GenerateIntermediateWallet(Vault, config.treasury, FALSE, clock, TRUE)
           nw == Len(v1.wallets)
           v2 == FundIntermediateWalletFromSource(v1, config.treasury, run.currentWalletId,
                                                  nw, rpcPrime)
           t  == TransferFromIntermediate(v2, run.currentWalletId, nw, run.currentAmount, rpcSend)
           v3 == MarkWalletAsUsed(t.v, run.currentWalletId, clock)
       IN  IF ~t.ok
           THEN RunFails(r, t.v, "hop transfer failed")
           ELSE /\ runs' = [runs EXCEPT ![r] = [@ EXCEPT
                       !.steps = Append(@, Step(2 + Len(run.splits) * 2
                                                  + Len(run.withdrawalWallets) + run.hop,
                                                run.currentWalletId, nw, t.sig,
                                                run.currentAmount)),
                       !.currentWalletId = nw,
                       !.hop = run.hop + 1,
                       !.pc = IF run.hop + 1 < run.finalHops THEN "hop" ELSE "final"]]
                /\ wallets' = v3.wallets
                /\ balance' = v3.balance
                /\ txCount' = v3.txCount
                /\ swaps' = swaps
                /\ calls' = calls
                /\ last' = [op |-> "run", run |-> r, ok |-> TRUE,
                            sent |-> t.sent, sentFee |-> 0]
    /\ UNCHANGED <<clock, uuidNext, config, userSigs, recovery, depositCounter,
                   windows, ticks>>

\* The relayer fee of step 8: the stored one when the SELECT by the run's
\* transactionId finds a row with a non-zero relayer_fee, else recomputed.
FinalRelayerFee(sw, tid, currentAmount) ==
    IF HasSwap(sw, tid) /\ SwapOf(sw, tid).relayer_fee # 0
    THEN SwapOf(sw, tid).relayer_fee
    ELSE RelayerFee(currentAmount)

\* Step 8 and the final registry update.
RunFinal(r, rpcSend) ==
    /\ r \in DOMAIN runs
    /\ runs[r].pc = "final"
    /\ LET run == runs[r]
           relayerFee == FinalRelayerFee(swaps, run.transactionId, run.currentAmount)
           amountAfterFee == run.currentAmount - relayerFee
           t  == IF config.feeWallet /\ relayerFee > 0
                 THEN TransferFromIntermediateMultiple(Vault, run.currentWalletId,
                          <<[to |-> run.destinationWallet, lamports |-> amountAfterFee],
                            [to |-> RelayerFeeAddr, lamports |-> relayerFee]>>, rpcSend)
                 ELSE TransferFromIntermediate(Vault, run.currentWalletId,
                          run.destinationWallet, run.currentAmount, rpcSend)
           v1 == MarkWalletAsUsed(t.v, run.currentWalletId, clock)
           finalStepNumber == 2 + Len(run.splits) * 2 + Len(run.withdrawalWallets)
                                + run.finalHops
           steps == Append(run.steps, Step(finalStepNumber, run.currentWalletId,
                                           run.destinationWallet, t.sig, amountAfterFee))
       IN  IF ~t.ok
           THEN RunFails(r, t.v, "final transfer failed") /\ UNCHANGED windows
           ELSE /\ runs' = [runs EXCEPT ![r] = [@ EXCEPT !.steps = steps, !.pc = "done"]]
                /\ windows' = RecordMixingWithdrawal(windows, run.mixingWindow)
                /\ swaps' = CompleteTransaction(swaps, run.transactionId, steps, t.sig, clock)
                /\ wallets' = v1.wallets
                /\ balance' = v1.balance
                /\ txCount' = v1.txCount
                /\ calls' = calls
                /\ last' = [op |-> "run", run |-> r, ok |-> TRUE,
                            sent |-> IF config.feeWallet /\ relayerFee > 0
                                     THEN t.sent[1].lamports ELSE t.sent,
                            sentFee |-> IF config.feeWallet /\ relayerFee > 0
                                        THEN t.sent[2].lamports ELSE 0]
    /\ UNCHANGED <<clock, uuidNext, config, userSigs, recovery, depositCounter, ticks>>

----------------------------------------------------------------------------
(* The deposit monitor: TransactionMonitor.                                *)

RECURSIVE PendingIds(_)
PendingIds(sw) ==
    IF sw = << >> THEN << >>
    ELSE IF Head(sw).status = "pending"
         THEN <<Head(sw).transaction_id>> \o PendingIds(Tail(sw))
         ELSE PendingIds(Tail(sw))

\* SELECT ... WHERE st.status = 'pending' ORDER BY st.created_at ASC LIMIT 10.
\* Rows are inserted with created_at = NOW(), so insertion order is the order
\* of created_at.  The selected columns are never updated afterwards: a row of
\* the result is kept as its transaction_id.
SelectPending(sw) ==
    LET ids == PendingIds(sw)
    IN  SubSeq(ids, 1, Min(Len(ids), MonitorLimit))

\* checkPendingTransactions: one firing of the interval (or the immediate check).
MonitorTick ==
    /\ SelectPending(swaps) # << >>
    /\ ticks' = Append(ticks, [rows |-> SelectPending(swaps), cur |-> 0])
    /\ calls' = calls
    /\ last' = [op |-> "tick"]
    /\ UNCHANGED <<clock, uuidNext, config, wallets, balance, txCount, userSigs, swaps,
                   recovery, depositCounter, windows, runs>>

\* The tick's loop is at its next row: no run awaited, or the awaited run ended.
\* A tick that has taken its last row stays in `ticks` with no rows: what is
\* left of it is the wait for the run it started, and a log line.
TickReady(t) ==
    /\ ticks[t].rows # << >>
    /\ IF ticks[t].cur = 0 THEN TRUE ELSE Terminal(ticks[t].cur)

\* A wrong version of FundsMissing: the fee reserve is not asked for.
FundsMissingNoReserve(bal, requiredAmount) == bal < requiredAmount

\* balance < requiredAmount + TRANSACTION_FEE_RESERVE
FundsMissing(bal, requiredAmount) == bal < requiredAmount + TRANSACTION_FEE_RESERVE

\* The ticks after tick t took its next row, awaiting run cur (0: none).
Advance(tk, t, cur) ==
    [tk EXCEPT ![t] = [rows |-> Tail(@.rows),
                       cur  |-> IF Tail(@.rows) = << >> THEN 0 ELSE cur]]

\* processPendingTransaction for the tick's next row, up to the first sleep of
\* executePrivateSwap: the two checks, then the start of the run (steps 1 to 3).
ProcessPending(t, visible, pct, js) ==
    /\ t \in DOMAIN ticks
    /\ TickReady(t)
    /\ LET tid == Head(ticks[t].rows)
           tx  == SwapOf(swaps, tid)
           firstIntermediate == tx.intermediate_wallet_id
           amount == tx.amount_sol
           transactionId == RunTransactionId(tid, uuidNext + 1)
           splits == IF ShouldSplit(amount)
                     THEN CalculateSplits(amount, TargetNotes(amount), pct, js)
                     ELSE <<amount>>
           sw1 == UpdateTransactionStatus(swaps, transactionId, "processing")
           run == [pc |-> "deposit", transactionId |-> transactionId, row |-> tid,
                   sourceWallet |-> tx.source_wallet,
                   destinationWallet |-> tx.destination_wallet,
                   amount |-> amount,
                   sourceTxSignature |-> tx.source_tx_signature,
                   intermediateWalletId |-> firstIntermediate,
                   steps |-> <<Step(1, tx.source_wallet, firstIntermediate,
                                    tx.source_tx_signature, amount)>>,
                   splits |-> splits, mixingWindow |-> WindowId(clock),
                   poolDeposits |-> << >>, withdrawalWallets |-> << >>,
                   i |-> 0, finalHops |-> 0, hop |-> 0,
                   currentWalletId |-> 0, currentAmount |-> 0, combinedWallet |-> 0,
                   error |-> ""]
       IN  IF ~visible \/ FundsMissing(balance[firstIntermediate], amount)
           THEN /\ ticks' = Advance(ticks, t, 0)
                /\ calls' = calls
                /\ last' = [op |-> "process", tid |-> tid, admitted |-> FALSE,
                            visible |-> visible]
                /\ UNCHANGED <<uuidNext, swaps, windows, runs>>
           ELSE /\ Len(runs) < MaxRuns
                /\ uuidNext' = uuidNext + 1
                /\ ticks' = Advance(ticks, t, Len(runs) + 1)
                /\ calls' = calls
                /\ last' = [op |-> "process", tid |-> tid, admitted |-> TRUE,
                            visible |-> visible]
                /\ IF balance[firstIntermediate] < amount
                   THEN /\ runs' = Append(runs, [run EXCEPT !.pc = "failed",
                                                  !.steps = << >>,
                                                  !.error = "Insufficient balance"])
                        /\ swaps' = FailTransaction(sw1, transactionId, "Insufficient balance")
                        /\ windows' = windows
                   ELSE /\ runs' = Append(runs, run)
                        /\ swaps' = sw1
                        /\ windows' = GetOrCreateMixingWindow(windows, clock)
    /\ UNCHANGED <<clock, config, wallets, balance, txCount, userSigs, recovery,
                   depositCounter>>

----------------------------------------------------------------------------
(* The specification: every handler with its inputs drawn from small sets.  *)

\* The recovery key prepareSwap handed to the user (the server keeps no copy
\* of it); Keys also holds a key that was never issued.
IssuedKeys == {"rk1"}

\* Requested amounts: the minimum swap (0.03 SOL, two notes).
Amounts == {MIN_SWAP_AMOUNT}

\* What the user sends: the amount alone (the frontend's transfer), or the
\* amount and the fee reserve the monitor asks for.
DepositLamports(amount) == {amount, amount + TRANSACTION_FEE_RESERVE}

Requests ==
    \/ \E amount \in Amounts, rpcOk \in {TRUE} :
          /\ Len(wallets) < MaxPrepared
          /\ PrepareSwap(SourceAddr, DestNew, amount, rpcOk)
    \/ \E walletId \in DOMAIN wallets, amount \in Amounts :
          \E lamports \in DepositLamports(amount) :
              /\ Cardinality(userSigs) < MaxDeposits
              /\ UserDeposit(walletId, lamports)
    \/ \E destinationWallet \in {DestNew}, amount \in Amounts, sig \in userSigs,
          walletId \in DOMAIN wallets, recoveryKey \in IssuedKeys \cup {NoKey} :
          /\ Len(swaps) < MaxSwaps
          /\ InitiateSwap(SourceAddr, destinationWallet, amount, sig, walletId, recoveryKey)

Recoveries ==
    \/ \E tid \in SwapIds : CheckRecovery(tid)
    \/ \E tid \in SwapIds, recoveryKey \in Keys, destinationWallet \in {DestOld},
          rpcOk \in BOOLEAN :
          ExecuteRecovery(tid, recoveryKey, destinationWallet, rpcOk)

Monitor ==
    \/ Len(ticks) < MaxTicks /\ MonitorTick
    \/ \E t \in DOMAIN ticks, visible \in BOOLEAN :
          /\ TickReady(t)
          /\ LET n == NoteCount(SwapOf(swaps, Head(ticks[t].rows)).amount_sol)
             IN  \E pct \in PercentDraws(n), js \in ShuffleDraws(n) :
                    ProcessPending(t, visible, pct, js)

\* The priming transfers are best-effort (a failure is logged and swallowed);
\* here their RPC call goes through, and they fail only for want of funds.
PrimeOutcomes == {TRUE}

Coordinator ==
    \E r \in DOMAIN runs, rpcPrime \in PrimeOutcomes, rpcSend \in BOOLEAN :
        \/ RunDeposit(r, rpcPrime, rpcSend)
        \/ \E draw \in ObfuscationDraws, hops \in HopChoices :
              RunWithdraw(r, draw, hops, rpcPrime, rpcSend)
        \/ RunCombine(r, rpcSend)
        \/ RunCombineFirst(r, rpcSend)
        \/ RunHop(r, rpcPrime, rpcSend)
        \/ RunFinal(r, rpcSend)

Next ==
    \/ \E d \in ClockSteps : AdvanceClock(d)
    \/ Requests
    \/ Recoveries
    \/ Monitor
    \/ Coordinator

Spec == Init /\ [][Next]_vars

----------------------------------------------------------------------------
(* The recovery thresholds, with the monitor stopped: a swap S is initiated *)
(* with a recovery key, time passes, then further initiates (without keys)  *)
(* arrive while the clock stands still.                                     *)

ClockStepsT == {59500, 60000}

\* The swaps that have a recovery record.
TrackedIds == {tid \in SwapIds : HasRecovery(recovery, tid)}

\* Only the first initiate carries a recovery key.
KeysT == IF swaps = << >> THEN IssuedKeys ELSE {NoKey}

RequestsT ==
    \/ \E amount \in Amounts :
          /\ Len(wallets) < MaxPrepared
          /\ PrepareSwap(SourceAddr, DestNew, amount, TRUE)
    \/ \E walletId \in DOMAIN wallets, amount \in Amounts :
          \E lamports \in DepositLamports(amount) :
              /\ Cardinality(userSigs) < MaxDeposits
              /\ UserDeposit(walletId, lamports)
    \/ \E amount \in Amounts, sig \in userSigs, walletId \in DOMAIN wallets,
          recoveryKey \in KeysT :
          /\ Len(swaps) < MaxSwapsT
          /\ InitiateSwap(SourceAddr, DestNew, amount, sig, walletId, recoveryKey)

RecoveriesT ==
    \/ \E tid \in TrackedIds : CheckRecovery(tid)
    \/ \E tid \in TrackedIds, recoveryKey \in Keys, rpcOk \in BOOLEAN :
          ExecuteRecovery(tid, recoveryKey, DestOld, rpcOk)

NextT ==
    \/ \E d \in ClockStepsT : Len(swaps) <= 1 /\ AdvanceClock(d)
    \/ RequestsT
    \/ RecoveriesT

SpecThreshold == Init /\ [][NextT]_vars

----------------------------------------------------------------------------
(* The monitor with overlapping ticks: setInterval fires again while the    *)
(* previous checkPendingTransactions still awaits a run, and startMonitoring*)
(* checks once at once.  One swap, no recoveries, the clock standing still; *)
(* calculateSplits draws 15% for every note and shuffles nothing.           *)

\* What the user sends here: as in DepositLamports, or well above the amount.
DepositLamportsM(amount) ==
    DepositLamports(amount) \cup {amount + 2 * MinimumFundingAmount}

RequestsM ==
    \/ \E amount \in Amounts :
          /\ Len(wallets) < MaxPrepared
          /\ PrepareSwap(SourceAddr, DestNew, amount, TRUE)
    \/ \E amount \in Amounts : \E lamports \in DepositLamportsM(amount) :
          /\ Cardinality(userSigs) < MaxDeposits
          /\ UserDeposit(1, lamports)
    \/ \E amount \in Amounts, sig \in userSigs :
          /\ Len(swaps) < MaxSwaps
          /\ InitiateSwap(SourceAddr, DestNew, amount, sig, 1, NoKey)

MonitorM ==
    \/ Len(ticks) < MaxTicksM /\ MonitorTick
    \/ \E t \in DOMAIN ticks, visible \in BOOLEAN :
          /\ TickReady(t)
          /\ LET n == NoteCount(SwapOf(swaps, Head(ticks[t].rows)).amount_sol)
             IN  ProcessPending(t, visible, [i \in 1 .. n - 1 |-> 15],
                                [i \in 1 .. n - 1 |-> i])

NextM ==
    \/ RequestsM
    \/ MonitorM
    \/ Coordinator

SpecMonitor == Init /\ [][NextM]_vars

----------------------------------------------------------------------------
(* The monitor over many swaps, running for ever.  Two wallets are          *)
(* prepared and the user funds wallet 2.  The swaps on wallet 1, whose      *)
(* deposit never arrives, come first (initiateSwap asks only that the       *)
(* signature it is given is of a confirmed transaction); the swap on        *)
(* wallet 2 is the youngest.  The requests arrive in one burst, before the  *)
(* first invocation of checkPendingTransactions that finds a pending swap.  *)
(* An invocation that has returned gives its place in `ticks` to the next   *)
(* firing of the interval.                                                  *)

\* The next firing of the interval, in the place of an invocation whose loop
\* has taken its last row.
MonitorTickAgain(t) ==
    /\ t \in DOMAIN ticks
    /\ ticks[t].rows = << >>
    /\ SelectPending(swaps) # << >>
    /\ ticks' = [ticks EXCEPT ![t] = [rows |-> SelectPending(swaps), cur |-> 0]]
    /\ calls' = calls
    /\ last' = [op |-> "tick"]
    /\ UNCHANGED <<clock, uuidNext, config, wallets, balance, txCount, userSigs, swaps,
                   recovery, depositCounter, windows, runs>>

\* The swaps on wallet id.
SwapsOn(id) == {i \in DOMAIN swaps : swaps[i].intermediate_wallet_id = id}

PrepareS ==
    \E amount \in Amounts :
        /\ Len(wallets) < MaxPreparedS
        /\ PrepareSwap(SourceAddr, DestNew, amount, TRUE)

DepositS ==
    \E amount \in Amounts :
        /\ Len(wallets) >= MaxPreparedS
        /\ Cardinality(userSigs) < MaxDeposits
        /\ UserDeposit(2, amount + TRANSACTION_FEE_RESERVE)

InitiateS ==
    \E amount \in Amounts, sig \in userSigs, walletId \in {1, 2} :
        /\ Len(swaps) < MaxSwapsS
        /\ SwapsOn(2) = {}
        /\ ticks = << >>
        /\ InitiateSwap(SourceAddr, DestNew, amount, sig, walletId, NoKey)

TickS ==
    \/ Len(ticks) < MaxTicks /\ MonitorTick
    \/ \E t \in DOMAIN ticks :
          /\ \A r \in DOMAIN runs : Terminal(r)
          /\ MonitorTickAgain(t)

\* The source transactions are confirmed, and stay so.
ProcessS ==
    \E t \in DOMAIN ticks :
        /\ TickReady(t)
        /\ LET n == NoteCount(SwapOf(swaps, Head(ticks[t].rows)).amount_sol)
           IN  ProcessPending(t, TRUE, [i \in 1 .. n - 1 |-> 15], [i \in 1 .. n - 1 |-> i])

CoordinatorS ==
    \E r \in DOMAIN runs, rpcSend \in BOOLEAN :
        \/ RunDeposit(r, TRUE, rpcSend)
        \/ RunWithdraw(r, 0 - OBFUSCATION_RANGE, 1, TRUE, rpcSend)
        \/ RunCombine(r, rpcSend)
        \/ RunCombineFirst(r, rpcSend)
        \/ RunHop(r, TRUE, rpcSend)
        \/ RunFinal(r, rpcSend)

NextS ==
    \/ PrepareS
    \/ DepositS
    \/ InitiateS
    \/ TickS
    \/ ProcessS
    \/ CoordinatorS

\* No run is under way.
RunsEnded == \A r \in DOMAIN runs : Terminal(r)

\* The interval keeps firing, the loop of an invocation keeps going, and a
\* run keeps going until it returns or throws: every await of theirs ends.
SpecStarve ==
    /\ Init
    /\ [][NextS]_vars
    /\ WF_vars(TickS)
    /\ WF_vars(ProcessS)
    /\ []<>RunsEnded

----------------------------------------------------------------------------
(* The basic service (USE_ENHANCED_PRIVACY = false): PrivacyService routes  *)
(* the whole amount through two or three wallets.  Its steps carry no       *)
(* amount.  A run of it uses pc "hop1", "hop2", "last".                     *)

BasicStep(n, from, to, sig) == [step |-> n, from |-> from, to |-> to, txSignature |-> sig]

\* processPendingTransaction with the basic service, up to the first delay of
\* PrivacyService.executePrivateSwap.
ProcessPendingBasic(t, visible) ==
    /\ t \in DOMAIN ticks
    /\ TickReady(t)
    /\ LET tid == Head(ticks[t].rows)
           tx  == SwapOf(swaps, tid)
           firstIntermediate == tx.intermediate_wallet_id
           amount == tx.amount_sol
           transactionId == RunTransactionId(tid, uuidNext + 1)
           sw1 == UpdateTransactionStatus(swaps, transactionId, "processing")
           run == [pc |-> "hop1", transactionId |-> transactionId, row |-> tid,
                   sourceWallet |-> tx.source_wallet,
                   destinationWallet |-> tx.destination_wallet,
                   amount |-> amount,
                   sourceTxSignature |-> tx.source_tx_signature,
                   intermediateWalletId |-> firstIntermediate,
                   steps |-> <<BasicStep(1, tx.source_wallet, firstIntermediate,
                                         tx.source_tx_signature)>>,
                   splits |-> <<amount>>, mixingWindow |-> 0,
                   poolDeposits |-> << >>, withdrawalWallets |-> << >>,
                   i |-> 0, finalHops |-> 0, hop |-> 0,
                   currentWalletId |-> 0, currentAmount |-> amount, combinedWallet |-> 0,
                   error |-> ""]
       IN  IF ~visible \/ FundsMissing(balance[firstIntermediate], amount)
           THEN /\ ticks' = Advance(ticks, t, 0)
                /\ calls' = calls
                /\ last' = [op |-> "process", tid |-> tid, admitted |-> FALSE,
                            visible |-> visible]
                /\ UNCHANGED <<uuidNext, swaps, runs>>
           ELSE /\ Len(runs) < MaxRuns
                /\ uuidNext' = uuidNext + 1
                /\ ticks' = Advance(ticks, t, Len(runs) + 1)
                /\ calls' = calls
                /\ last' = [op |-> "process", tid |-> tid, admitted |-> TRUE,
                            visible |-> visible]
                /\ IF balance[firstIntermediate] < amount
                   THEN /\ runs' = Append(runs, [run EXCEPT !.pc = "failed",
                                                  !.steps = << >>,
                                                  !.error = "Insufficient balance"])
                        /\ swaps' = FailTransaction(sw1, transactionId, "Insufficient balance")
                   ELSE /\ runs' = Append(runs, run)
                        /\ swaps' = sw1
    /\ UNCHANGED <<clock, config, wallets, balance, txCount, userSigs, recovery,
                   depositCounter, windows>>

\* The first hop: allocate and prime the second wallet, transfer the amount to
\* it, mark the first wallet used, draw useThirdHop; without a third hop the
\* second wallet is marked used at once.
BasicHop1(r, useThirdHop, rpcPrime, rpcSend) ==
    /\ r \in DOMAIN runs
    /\ runs[r].pc = "hop1"
    /\ LET run == runs[r]
           v1 == GenerateIntermediateWallet(Vault, config.treasury, FALSE, clock, TRUE)
           nw == Len(v1.wallets)
           v2 == FundIntermediateWalletFromSource(v1, config.treasury,
                                                  run.intermediateWalletId, nw, rpcPrime)
           t  == TransferFromIntermediate(v2, run.intermediateWalletId, nw, run.amount, rpcSend)
           v3 == MarkWalletAsUsed(t.v, run.intermediateWalletId, clock)
           v4 == IF useThirdHop THEN v3 ELSE MarkWalletAsUsed(v3, nw, clock)
       IN  IF ~t.ok
           THEN RunFails(r, t.v, "hop transfer failed")
           ELSE /\ runs' = [runs EXCEPT ![r] = [@ EXCEPT
                       !.steps = Append(@, BasicStep(2, run.intermediateWalletId, nw, t.sig)),
                       !.currentWalletId = nw,
                       !.finalHops = IF useThirdHop THEN 1 ELSE 0,
                       !.pc = IF useThirdHop THEN "hop2" ELSE "last"]]
                /\ wallets' = v4.wallets
                /\ balance' = v4.balance
                /\ txCount' = v4.txCount
                /\ swaps' = swaps
                /\ calls' = calls
                /\ last' = [op |-> "run", run |-> r, ok |-> TRUE,
                            sent |-> t.sent, sentFee |-> 0]
    /\ UNCHANGED <<clock, uuidNext, config, userSigs, recovery, depositCounter,
                   windows, ticks>>

\* The second hop: allocate and prime the third wallet from the second,
\* transfer the amount to it, mark the second wallet used.
BasicHop2(r, rpcPrime, rpcSend) ==
    /\ r \in DOMAIN runs
    /\ runs[r].pc = "hop2"
    /\ LET run == runs[r]
           v1 == GenerateIntermediateWallet(Vault, config.treasury, FALSE, clock, TRUE)
           nw == Len(v1.wallets)
           v2 == FundIntermediateWalletFromSource(v1, config.treasury, run.currentWalletId,
                                                  nw, rpcPrime)
           t  == TransferFromIntermediate(v2, run.currentWalletId, nw, run.amount, rpcSend)
           v3 == MarkWalletAsUsed(t.v, run.currentWalletId, clock)
       IN  IF ~t.ok
           THEN RunFails(r, t.v, "hop transfer failed")
           ELSE /\ runs' = [runs EXCEPT ![r] = [@ EXCEPT
                       !.steps = Append(@, BasicStep(3, run.currentWalletId, nw, t.sig)),
                       !.currentWalletId = nw,
                       !.pc = "last"]]
                /\ wallets' = v3.wallets
                /\ balance' = v3.balance
                /\ txCount' = v3.txCount
                /\ swaps' = swaps
                /\ calls' = calls
                /\ last' = [op |-> "run", run |-> r, ok |-> TRUE,
                            sent |-> t.sent, sentFee |-> 0]
    /\ UNCHANGED <<clock, uuidNext, config, userSigs, recovery, depositCounter,
                   windows, ticks>>

\* The transfer to the destination (and to the relayer fee wallet), the mark
\* on the last wallet and the final registry update.
BasicFinal(r, rpcSend) ==
    /\ r \in DOMAIN runs
    /\ runs[r].pc = "last"
    /\ LET run == runs[r]
           relayerFee == FinalRelayerFee(swaps, run.transactionId, run.amount)
           amountAfterFee == run.amount - relayerFee
           t  == IF config.feeWallet /\ relayerFee > 0
                 THEN TransferFromIntermediateMultiple(Vault, run.currentWalletId,
                          <<[to |-> run.destinationWallet, lamports |-> amountAfterFee],
                            [to |-> RelayerFeeAddr, lamports |-> relayerFee]>>, rpcSend)
                 ELSE TransferFromIntermediate(Vault, run.currentWalletId,
                          run.destinationWallet, run.amount, rpcSend)
           v1 == MarkWalletAsUsed(t.v, run.currentWalletId, clock)
           steps == Append(run.steps, BasicStep(3 + run.finalHops, run.currentWalletId,
                                                run.destinationWallet, t.sig))
       IN  IF ~t.ok
           THEN RunFails(r, t.v, "final transfer failed")
           ELSE /\ runs' = [runs EXCEPT ![r] = [@ EXCEPT !.steps = steps, !.pc = "done"]]
                /\ swaps' = CompleteTransaction(swaps, run.transactionId, steps, t.sig, clock)
                /\ wallets' = v1.wallets
                /\ balance' = v1.balance
                /\ txCount' = v1.txCount
                /\ calls' = calls
                /\ last' = [op |-> "run", run |-> r, ok |-> TRUE,
                            sent |-> IF config.feeWallet /\ relayerFee > 0
                                     THEN t.sent[1].lamports ELSE t.sent,
                            sentFee |-> IF config.feeWallet /\ relayerFee > 0
                                        THEN t.sent[2].lamports ELSE 0]
    /\ UNCHANGED <<clock, uuidNext, config, userSigs, recovery, depositCounter,
                   windows, ticks>>

\* The monitor of either deployment: one tick, whose loop hands the swap to
\* the enhanced service or to the basic one.
MonitorB ==
    \/ Len(ticks) < MaxTicks /\ MonitorTick
    \/ \E t \in DOMAIN ticks, visible \in BOOLEAN :
          /\ TickReady(t)
          /\ LET n == NoteCount(SwapOf(swaps, Head(ticks[t].rows)).amount_sol)
             IN  ProcessPending(t, visible, [i \in 1 .. n - 1 |-> 15],
                                [i \in 1 .. n - 1 |-> i])
    \/ \E t \in DOMAIN ticks, visible \in BOOLEAN : ProcessPendingBasic(t, visible)

CoordinatorB ==
    \E r \in DOMAIN runs, rpcPrime \in PrimeOutcomes, rpcSend \in BOOLEAN :
        \/ \E useThirdHop \in BOOLEAN : BasicHop1(r, useThirdHop, rpcPrime, rpcSend)
        \/ BasicHop2(r, rpcPrime, rpcSend)
        \/ BasicFinal(r, rpcSend)

NextB == RequestsM \/ MonitorB \/ Coordinator \/ CoordinatorB

SpecServices == Init /\ [][NextB]_vars

----------------------------------------------------------------------------
(* One swap through the enhanced service, with priming transfers that the   *)
(* RPC node may refuse.                                                     *)

CoordinatorP ==
    \E r \in DOMAIN runs, rpcPrime \in BOOLEAN :
        \/ RunDeposit(r, rpcPrime, TRUE)
        \/ RunWithdraw(r, 0, 1, rpcPrime, TRUE)
        \/ RunCombine(r, TRUE)
        \/ RunCombineFirst(r, TRUE)
        \/ RunHop(r, rpcPrime, TRUE)
        \/ RunFinal(r, TRUE)

MonitorP ==
    \/ Len(ticks) < MaxTicks /\ MonitorTick
    \/ \E t \in DOMAIN ticks :
          /\ TickReady(t)
          /\ LET n == NoteCount(SwapOf(swaps, Head(ticks[t].rows)).amount_sol)
             IN  \E pct \in PercentDraws(n) :
                    ProcessPending(t, TRUE, pct, [i \in 1 .. n - 1 |-> i])

NextP == RequestsM \/ MonitorP \/ CoordinatorP

SpecPrime == Init /\ [][NextP]_vars

----------------------------------------------------------------------------
(* GET /api/swap/config over builds of the service: a build is its         *)
(* constants.ts, and the configuration hash is asked of one build after     *)
(* another.                                                                 *)

\* The constants of constants.ts that the code calls immutable, as built.
Constants ==
    [RELAYER_FEE_PERCENTAGE       |-> RelayerFeeDivisor,
     DEPOSIT_FEE_PERCENTAGE       |-> DEPOSIT_FEE_PERCENTAGE,
     MIN_SWAP_AMOUNT              |-> MIN_SWAP_AMOUNT,
     MAX_SWAP_AMOUNT              |-> MAX_SWAP_AMOUNT,
     MAX_MIXING_NOTES             |-> MAX_MIXING_NOTES,
     DEFAULT_MIXING_NOTES         |-> DEFAULT_MIXING_NOTES,
     MIN_MIXING_NOTES             |-> MIN_MIXING_NOTES,
     MIXING_WINDOW_DURATION_MS    |-> MIXING_WINDOW_DURATION_MS,
     MIN_SPLIT_AMOUNT             |-> MIN_SPLIT_AMOUNT,
     OBFUSCATION_RANGE            |-> OBFUSCATION_RANGE,
     EMERGENCY_RECOVERY_THRESHOLD |-> EMERGENCY_RECOVERY_THRESHOLD,
     RECOVERY_FALLBACK_BLOCKS     |-> RECOVERY_FALLBACK_BLOCKS,
     TRANSACTION_FEE_RESERVE      |-> TRANSACTION_FEE_RESERVE]

\* The builds considered: the one of the source, and every build that differs
\* from it in the value of one constant.
Builds ==
    {Constants} \cup {[Constants EXCEPT ![f] = @ + 1] : f \in DOMAIN Constants}

\* JSON.stringify of the object getConfigHash builds: its keys in order, each
\* with its value.
ConfigJson(c) ==
    << <<"relayerFee", c.RELAYER_FEE_PERCENTAGE>>,
       <<"depositFee", c.DEPOSIT_FEE_PERCENTAGE>>,
       <<"minSwap", c.MIN_SWAP_AMOUNT>>,
       <<"maxSwap", c.MAX_SWAP_AMOUNT>>,
       <<"maxNotes", c.MAX_MIXING_NOTES>>,
       <<"defaultNotes", c.DEFAULT_MIXING_NOTES>>,
       <<"mixingWindow", c.MIXING_WINDOW_DURATION_MS>>,
       <<"minSplit", c.MIN_SPLIT_AMOUNT>>,
       <<"obfuscation", c.OBFUSCATION_RANGE>>,
       <<"recoveryThreshold", c.EMERGENCY_RECOVERY_THRESHOLD>>,
       <<"recoveryFallback", c.RECOVERY_FALLBACK_BLOCKS>> >>

GetConfigHash(c) == Sha256(ConfigJson(c))

\* GET /api/swap/config answered by build c; the answer before it is kept
\* beside it.
GetConfig(c) ==
    /\ last.op \in {"init", "config"}
    /\ last' = [op |-> "config", constants |-> c, configHash |-> GetConfigHash(c),
                before |-> IF last.op = "config"
                           THEN <<[constants |-> last.constants,
                                   configHash |-> last.configHash]>>
                           ELSE << >>]
    /\ UNCHANGED <<clock, uuidNext, config, wallets, balance, txCount, userSigs, swaps,
                   recovery, depositCounter, windows, ticks, runs, calls>>

NextC == \E c \in Builds : GetConfig(c)

SpecConfig == Init /\ [][NextC]_vars

----------------------------------------------------------------------------
(* Initiate requests that arrive after a run: the client names any wallet   *)
(* the registry knows, and the signature of the one deposit it made.        *)

RequestsR ==
    \/ /\ Len(wallets) < MaxPrepared
       /\ PrepareSwap(SourceAddr, DestNew, MIN_SWAP_AMOUNT, TRUE)
    \/ /\ Cardinality(userSigs) < MaxDeposits
       /\ UserDeposit(1, MIN_SWAP_AMOUNT + 2 * MinimumFundingAmount)
    \/ \E sig \in userSigs, walletId \in DOMAIN wallets :
          /\ Len(swaps) < MaxSwapsR
          /\ InitiateSwap(SourceAddr, DestNew, MIN_SWAP_AMOUNT, sig, walletId, NoKey)

CoordinatorR ==
    \E r \in DOMAIN runs :
        \/ RunDeposit(r, TRUE, TRUE)
        \/ RunWithdraw(r, 0, 1, TRUE, TRUE)
        \/ RunCombine(r, TRUE)
        \/ RunCombineFirst(r, TRUE)
        \/ RunHop(r, TRUE, TRUE)
        \/ RunFinal(r, TRUE)

NextR == RequestsR \/ MonitorP \/ CoordinatorR

SpecReuse == Init /\ [][NextR]_vars

----------------------------------------------------------------------------
(* Recovery keys: the client sends a recovery key of its choice with the    *)
(* initiate request, and later asks for recovery with either key.           *)

RequestsK ==
    \/ /\ Len(wallets) < MaxPrepared
       /\ PrepareSwap(SourceAddr, DestNew, MIN_SWAP_AMOUNT, TRUE)
    \/ \E lamports \in DepositLamports(MIN_SWAP_AMOUNT) :
          /\ Cardinality(userSigs) < MaxDeposits
          /\ UserDeposit(1, lamports)
    \/ \E sig \in userSigs, recoveryKey \in Keys \cup {NoKey} :
          /\ Len(swaps) < MaxSwaps
          /\ InitiateSwap(SourceAddr, DestNew, MIN_SWAP_AMOUNT, sig, 1, recoveryKey)

NextK ==
    \/ \E d \in ClockStepsT : AdvanceClock(d)
    \/ RequestsK
    \/ RecoveriesT

SpecKeys == Init /\ [][NextK]_vars

----------------------------------------------------------------------------
(* Step 2 of executePrivateSwap on its own: the note plan of one amount,    *)
(* for every draw of the split percentages and two draws of the shuffle.    *)

\* The amounts planned, in lamports: the ends of the bands, and amounts
\* inside them.
AmountsN ==
    {20000000, 20000001, 30000000, 50000000, 100000000, 100000001, 500000000,
     500000001, 800000003, 1000000000, 1000000001, 1100000000, 1200000000,
     1400000000, 1600000000, 2000000000, 2100000000}

\* Math.random() of the shuffle: always 0, or always just below 1.
ShuffleDrawsN(n) == {[i \in 1 .. n - 1 |-> 0], [i \in 1 .. n - 1 |-> i]}

\* const splits = shouldSplit ? this.calculateSplits(amount, targetNotes) : [amount]
PlanSplits(amount, pct, js) ==
    /\ last.op = "init"
    /\ last' = [op |-> "splits", amount |-> amount,
                splits |-> IF ShouldSplit(amount)
                           THEN CalculateSplits(amount, TargetNotes(amount), pct, js)
                           ELSE <<amount>>]
    /\ UNCHANGED <<clock, uuidNext, config, wallets, balance, txCount, userSigs, swaps,
                   recovery, depositCounter, windows, ticks, runs, calls>>

NextN ==
    \E amount \in AmountsN :
        \E pct \in PercentDraws(NoteCount(amount)), js \in ShuffleDrawsN(NoteCount(amount)) :
            PlanSplits(amount, pct, js)

SpecNotes == Init /\ [][NextN]_vars

----------------------------------------------------------------------------
(* Runs of two, four and eight notes with one or two hops, every RPC call   *)
(* going through: the steps a run records.                                  *)

AmountsSt == {30000000, 200000000, 1600000000}

RequestsSt ==
    \/ \E amount \in AmountsSt :
          /\ Len(wallets) < MaxPrepared
          /\ PrepareSwap(SourceAddr, DestNew, amount, TRUE)
    \/ \E amount \in AmountsSt :
          /\ Cardinality(userSigs) < MaxDeposits
          /\ UserDeposit(1, amount + 10 * MinimumFundingAmount)
    \/ \E amount \in AmountsSt, sig \in userSigs :
          /\ Len(swaps) < MaxSwaps
          /\ InitiateSwap(SourceAddr, DestNew, amount, sig, 1, NoKey)

MonitorSt ==
    \/ Len(ticks) < MaxTicks /\ MonitorTick
    \/ \E t \in DOMAIN ticks :
          /\ TickReady(t)
          /\ LET n == NoteCount(SwapOf(swaps, Head(ticks[t].rows)).amount_sol)
             IN  ProcessPending(t, TRUE, [i \in 1 .. n - 1 |-> 15], [i \in 1 .. n - 1 |-> i])

CoordinatorSt ==
    \E r \in DOMAIN runs :
        \/ RunDeposit(r, TRUE, TRUE)
        \/ \E hops \in HopChoices : RunWithdraw(r, 0, hops, TRUE, TRUE)
        \/ RunCombine(r, TRUE)
        \/ RunCombineFirst(r, TRUE)
        \/ RunHop(r, TRUE, TRUE)
        \/ RunFinal(r, TRUE)

NextSt == RequestsSt \/ MonitorSt \/ CoordinatorSt

SpecSteps == Init /\ [][NextSt]_vars

----------------------------------------------------------------------------
(* obfuscateAmount on its own: one note value and one draw of the offset.   *)

\* The note values: the least note, values about it, and larger ones.
NotesO ==
    {MIN_SPLIT_AMOUNT, MIN_SPLIT_AMOUNT + 1, 10999999, 11000000, 17000001, 20000000,
     120000000, 354964251, 1600000000}

\* (Math.random() - 0.5) * 2 * OBFUSCATION_RANGE, in lamports and fractions of
\* a lamport: from -OBFUSCATION_RANGE up to just below OBFUSCATION_RANGE.
OffsetsO ==
    {<<0 - OBFUSCATION_RANGE, 0>>, <<0 - OBFUSCATION_RANGE, 1>>,
     <<0 - OBFUSCATION_RANGE, SubLamport \div 2>>, <<0 - 1, SubLamport \div 2>>, <<0, 0>>,
     <<0, SubLamport \div 2 - 1>>, <<OBFUSCATION_RANGE \div 2, 0>>,
     <<OBFUSCATION_RANGE - 1, SubLamport \div 2 - 1>>,
     <<OBFUSCATION_RANGE - 1, SubLamport \div 2>>, <<OBFUSCATION_RANGE - 1, SubLamport - 1>>}

\* const obfuscatedAmount = this.obfuscateAmount(deposit.amount): the amount
\* is a whole number of lamports, so rounding the sum rounds the offset.
Obfuscate(amount, offset) ==
    /\ last.op = "init"
    /\ last' = [op |-> "obfuscate", amount |-> amount, offset |-> offset,
                obfuscated |-> ObfuscateAmount(amount, ToFixed9(offset))]
    /\ UNCHANGED <<clock, uuidNext, config, wallets, balance, txCount, userSigs, swaps,
                   recovery, depositCounter, windows, ticks, runs, calls>>

NextO == \E amount \in NotesO, offset \in OffsetsO : Obfuscate(amount, offset)

SpecObfuscate == Init /\ [][NextO]_vars

----------------------------------------------------------------------------
(* A run to its end: every transfer may go through or fail, and the run     *)
(* keeps going, every await of its ending, until it returns or throws.      *)

CoordinatorL ==
    \E r \in DOMAIN runs, rpcSend \in BOOLEAN :
        \/ RunDeposit(r, TRUE, rpcSend)
        \/ RunWithdraw(r, 0, 1, TRUE, rpcSend)
        \/ RunCombine(r, rpcSend)
        \/ RunCombineFirst(r, rpcSend)
        \/ RunHop(r, TRUE, rpcSend)
        \/ RunFinal(r, rpcSend)

NextL == RequestsM \/ MonitorP \/ CoordinatorL

SpecLive == Init /\ [][NextL]_vars /\ WF_vars(CoordinatorL)

----------------------------------------------------------------------------
(* Swaps without a recovery record: the first two initiates may carry a    *)
(* recovery key or none, the later ones carry none; time passes while two   *)
(* swaps exist, and recovery is asked for the first two swaps.              *)

KeysU == IF Len(swaps) < 2 THEN IssuedKeys \cup {NoKey} ELSE {NoKey}

\* The swaps recovery is asked for.
AskedIds == {swaps[i].transaction_id : i \in DOMAIN swaps \cap {1, 2}}

RequestsU ==
    \/ \E amount \in Amounts :
          /\ Len(wallets) < MaxPrepared
          /\ PrepareSwap(SourceAddr, DestNew, amount, TRUE)
    \/ \E walletId \in DOMAIN wallets, amount \in Amounts :
          /\ Cardinality(userSigs) < MaxDeposits
          /\ UserDeposit(walletId, amount + TRANSACTION_FEE_RESERVE)
    \/ \E amount \in Amounts, sig \in userSigs, walletId \in DOMAIN wallets,
          recoveryKey \in KeysU :
          /\ Len(swaps) < MaxSwapsT
          /\ InitiateSwap(SourceAddr, DestNew, amount, sig, walletId, recoveryKey)

RecoveriesU ==
    \/ \E tid \in AskedIds : CheckRecovery(tid)
    \/ \E tid \in AskedIds, recoveryKey \in Keys :
          ExecuteRecovery(tid, recoveryKey, DestOld, TRUE)

NextU ==
    \/ Len(swaps) = 2 /\ AdvanceClock(FallbackSeconds * 1000)
    \/ RequestsU
    \/ RecoveriesU

SpecUntracked == Init /\ [][NextU]_vars

----------------------------------------------------------------------------
(* The wallet vault on its own: the methods of WalletService and            *)
(* markWalletAsUsed called with arguments of any kind, on wallets funded    *)
(* with the minimum funding amount and a few lamports more.  Amounts are    *)
(* kept small, so that the properties can multiply them.                    *)

\* generateIntermediateWallet(fundFromTreasury)
VaultGenerate(fundFromTreasury, rpcOk) ==
    LET v == GenerateIntermediateWallet(Vault, config.treasury, fundFromTreasury, clock, rpcOk)
    IN  /\ wallets' = v.wallets
        /\ balance' = v.balance
        /\ txCount' = v.txCount
        /\ calls' = calls
        /\ last' = [op |-> "generate", walletId |-> Len(v.wallets)]
        /\ UNCHANGED <<clock, uuidNext, config, userSigs, swaps, recovery,
                       depositCounter, windows, ticks, runs>>

\* markWalletAsUsed(walletId)
VaultMarkUsed(walletId) ==
    LET v == MarkWalletAsUsed(Vault, walletId, clock)
    IN  /\ wallets' = v.wallets
        /\ calls' = calls
        /\ last' = [op |-> "markUsed", walletId |-> walletId]
        /\ UNCHANGED <<clock, uuidNext, config, balance, txCount, userSigs, swaps,
                       recovery, depositCounter, windows, ticks, runs>>

\* transferFromIntermediate(walletId, destination, amount)
VaultTransfer(walletId, destination, amount, rpcOk) ==
    LET t == TransferFromIntermediate(Vault, walletId, destination, amount, rpcOk)
    IN  /\ wallets' = t.v.wallets
        /\ balance' = t.v.balance
        /\ txCount' = t.v.txCount
        /\ calls' = calls
        /\ last' = [op |-> "transfer", walletId |-> walletId, ok |-> t.ok,
                    requested |-> <<amount>>, sent |-> <<t.sent>>,
                    balanceBefore |-> balance[walletId],
                    activeBefore |-> wallets[walletId].is_active]
        /\ UNCHANGED <<clock, uuidNext, config, userSigs, swaps, recovery,
                       depositCounter, windows, ticks, runs>>

\* transferFromIntermediateMultiple(walletId, transfers)
VaultTransferMultiple(walletId, transfers, rpcOk) ==
    LET t == TransferFromIntermediateMultiple(Vault, walletId, transfers, rpcOk)
    IN  /\ wallets' = t.v.wallets
        /\ balance' = t.v.balance
        /\ txCount' = t.v.txCount
        /\ calls' = calls
        /\ last' = [op |-> "transferMultiple", walletId |-> walletId, ok |-> t.ok,
                    requested |-> [i \in DOMAIN transfers |-> transfers[i].lamports],
                    sent |-> [i \in DOMAIN t.sent |-> t.sent[i].lamports],
                    balanceBefore |-> balance[walletId],
                    activeBefore |-> wallets[walletId].is_active]
        /\ UNCHANGED <<clock, uuidNext, config, userSigs, swaps, recovery,
                       depositCounter, windows, ticks, runs>>

\* fundIntermediateWalletFromSource(sourceWalletId, destinationPublicKey)
VaultFundFromSource(sourceWalletId, dest, rpcOk) ==
    LET v == FundIntermediateWalletFromSource(Vault, config.treasury, sourceWalletId,
                                              dest, rpcOk)
    IN  /\ wallets' = v.wallets
        /\ balance' = v.balance
        /\ txCount' = v.txCount
        /\ calls' = calls
        /\ last' = [op |-> "fund", walletId |-> sourceWalletId,
                    ok |-> v.balance[sourceWalletId] # balance[sourceWalletId],
                    requested |-> <<MinimumFundingAmount>>,
                    sent |-> <<balance[sourceWalletId] - v.balance[sourceWalletId]>>,
                    balanceBefore |-> balance[sourceWalletId],
                    activeBefore |-> wallets[sourceWalletId].is_active]
        /\ UNCHANGED <<clock, uuidNext, config, userSigs, swaps, recovery,
                       depositCounter, windows, ticks, runs>>

\* What arrives in a wallet from outside: the minimum funding amount, a few
\* lamports, or what a priming transfer out of it asks for.
DepositsV == {MinimumFundingAmount, 7, TRANSACTION_FEE_RESERVE + PrimeFeeMargin}

\* The amounts asked of transferFromIntermediate.
AmountsV == {5, 12}

\* The amounts asked of transferFromIntermediateMultiple, recipient by recipient.
TransfersV == {<<3, 1>>, <<9, 2>>, <<10, 10>>}

NextV ==
    \/ \E fundFromTreasury \in BOOLEAN :
          /\ Len(wallets) < MaxWalletsV
          /\ VaultGenerate(fundFromTreasury, TRUE)
    \/ \E walletId \in DOMAIN wallets, lamports \in DepositsV :
          /\ Cardinality(userSigs) < MaxDepositsV
          /\ UserDeposit(walletId, lamports)
    \/ \E walletId \in DOMAIN wallets : VaultMarkUsed(walletId)
    \/ \E walletId \in DOMAIN wallets, amount \in AmountsV, rpcOk \in BOOLEAN :
          /\ txCount[walletId] < MaxTxV
          /\ VaultTransfer(walletId, DestOld, amount, rpcOk)
    \/ \E walletId \in DOMAIN wallets, amounts \in TransfersV, rpcOk \in BOOLEAN :
          /\ txCount[walletId] < MaxTxV
          /\ VaultTransferMultiple(walletId,
              <<[to |-> DestOld, lamports |-> amounts[1]],
                [to |-> RelayerFeeAddr, lamports |-> amounts[2]]>>, rpcOk)
    \/ \E sourceWalletId \in DOMAIN wallets, dest \in DOMAIN wallets, rpcOk \in BOOLEAN :
          /\ dest # sourceWalletId
          /\ txCount[sourceWalletId] < MaxTxV
          /\ VaultFundFromSource(sourceWalletId, dest, rpcOk)

SpecVault == Init /\ [][NextV]_vars

----------------------------------------------------------------------------
(* initiateSwap await by await: requests are served concurrently, and       *)
(* another request may run between two database calls of one request.  A    *)
(* call is the request's local state; dbOk = FALSE is a database error, on  *)
(* which the handler answers 500.  Requests carry no encryptedMemo.         *)

CallFails(c) ==
    /\ calls' = [calls EXCEPT ![c] = [@ EXCEPT !.pc = "failed"]]
    /\ last' = [op |-> "initiate", ok |-> FALSE, status |-> 500, call |-> c]

\* Validation and connection.getTransaction(sourceTxSignature).
InitiateBegin(sourceWallet, destinationWallet, amount, sourceTxSignature, intermediateWalletId, recoveryKey) ==
    LET request == <<sourceWallet, destinationWallet, amount, sourceTxSignature,
                     intermediateWalletId>>
    IN  /\ IF \/ InitiateRejects(sourceWallet, destinationWallet, amount,
                                 sourceTxSignature, intermediateWalletId)
              \/ sourceTxSignature \notin userSigs
           THEN /\ calls' = calls
                /\ last' = [op |-> "initiate", ok |-> FALSE, status |-> 400,
                            request |-> request]
           ELSE /\ calls' = Append(calls,
                       [pc |-> "insert", sourceWallet |-> sourceWallet,
                        destinationWallet |-> destinationWallet, amount |-> amount,
                        sourceTxSignature |-> sourceTxSignature,
                        intermediateWalletId |-> intermediateWalletId,
                        recoveryKey |-> recoveryKey,
                        transactionId |-> 0, depositCount |-> 0])
                /\ last' = [op |-> "initiateBegin", ok |-> TRUE, status |-> 0,
                            request |-> request]
        /\ UNCHANGED <<clock, uuidNext, config, wallets, balance, txCount, userSigs,
                       swaps, recovery, depositCounter, windows, ticks, runs>>

\* createSwapTransaction: the INSERT; it fails on an intermediate_wallet_id
\* that is no row of intermediate_wallets (foreign key).
InitiateInsert(c, dbOk) ==
    /\ c \in DOMAIN calls
    /\ calls[c].pc = "insert"
    /\ LET call == calls[c]
           transactionId == uuidNext + 1
       IN  IF ~dbOk \/ call.intermediateWalletId \notin DOMAIN wallets
           THEN CallFails(c) /\ UNCHANGED <<uuidNext, swaps>>
           ELSE /\ uuidNext' = transactionId
                /\ swaps' = CreateSwapTransaction(swaps, transactionId, call.sourceWallet,
                                call.destinationWallet, call.amount,
                                call.intermediateWalletId, call.sourceTxSignature,
                                RelayerFee(call.amount), clock)
                /\ calls' = [calls EXCEPT ![c] = [@ EXCEPT
                                !.transactionId = transactionId,
                                !.pc = IF call.recoveryKey # NoKey THEN "getDepositCount"
                                       ELSE "increment"]]
                /\ last' = [op |-> "initiateInsert", ok |-> TRUE, status |-> 0, call |-> c]
    /\ UNCHANGED <<clock, config, wallets, balance, txCount, userSigs, recovery,
                   depositCounter, windows, ticks, runs>>

\* initializeRecovery: getDepositCount.
InitiateGetDepositCount(c, dbOk) ==
    /\ c \in DOMAIN calls
    /\ calls[c].pc = "getDepositCount"
    /\ IF ~dbOk
       THEN CallFails(c)
       ELSE /\ calls' = [calls EXCEPT ![c] = [@ EXCEPT !.depositCount = depositCounter,
                                                       !.pc = "initializeRecovery"]]
            /\ last' = [op |-> "initiateRead", ok |-> TRUE, status |-> 0, call |-> c]
    /\ UNCHANGED <<clock, uuidNext, config, wallets, balance, txCount, userSigs, swaps,
                   recovery, depositCounter, windows, ticks, runs>>

\* initializeRecovery: the INSERT into recovery_tracking.
InitiateInitializeRecovery(c, dbOk) ==
    /\ c \in DOMAIN calls
    /\ calls[c].pc = "initializeRecovery"
    /\ IF ~dbOk
       THEN CallFails(c) /\ UNCHANGED recovery
       ELSE /\ recovery' = InitializeRecovery(recovery, calls[c].depositCount,
                                              calls[c].transactionId,
                                              Sha256(calls[c].recoveryKey))
            /\ calls' = [calls EXCEPT ![c] = [@ EXCEPT !.pc = "increment"]]
            /\ last' = [op |-> "initiateRecovery", ok |-> TRUE, status |-> 0, call |-> c]
    /\ UNCHANGED <<clock, uuidNext, config, wallets, balance, txCount, userSigs, swaps,
                   depositCounter, windows, ticks, runs>>

\* incrementDepositCounter and the answer.
InitiateIncrement(c, dbOk) ==
    /\ c \in DOMAIN calls
    /\ calls[c].pc = "increment"
    /\ IF ~dbOk
       THEN CallFails(c) /\ UNCHANGED depositCounter
       ELSE /\ depositCounter' = IncrementDepositCounter(depositCounter)
            /\ calls' = [calls EXCEPT ![c] = [@ EXCEPT !.pc = "done"]]
            /\ last' = [op |-> "initiate", ok |-> TRUE, status |-> 200, call |-> c,
                        tid |-> calls[c].transactionId]
    /\ UNCHANGED <<clock, uuidNext, config, wallets, balance, txCount, userSigs, swaps,
                   recovery, windows, ticks, runs>>

\* The fields of a prepare request: all valid with an amount of MIN_SWAP or
\* one lamport less, or one field absent or malformed (an address that does
\* not parse; an amount that is no number, or negative).
PrepareRequestsI ==
    {<<SourceAddr, DestNew, amount>> : amount \in {MIN_SWAP_AMOUNT, MIN_SWAP_AMOUNT - 1}}
    \cup {<<sourceWallet, DestNew, MIN_SWAP_AMOUNT>> : sourceWallet \in {NoAddr, BadAddr}}
    \cup {<<SourceAddr, destinationWallet, MIN_SWAP_AMOUNT>> :
             destinationWallet \in {NoAddr, BadAddr}}
    \cup {<<SourceAddr, DestNew, amount>> : amount \in {0, NotANumber, 0 - 1}}

\* The fields of an initiate request: those of a prepare request with the
\* signature of a confirmed deposit and the id of a prepared wallet, or valid
\* fields with a signature or a wallet id that is absent or unknown.
InitiateRequestsI ==
    {<<q[1], q[2], q[3], sig, walletId>> :
        q \in PrepareRequestsI, sig \in userSigs, walletId \in DOMAIN wallets}
    \cup {<<SourceAddr, DestNew, MIN_SWAP_AMOUNT, sig, walletId>> :
             sig \in {UnknownSig, NoSig}, walletId \in DOMAIN wallets}
    \cup {<<SourceAddr, DestNew, MIN_SWAP_AMOUNT, sig, walletId>> :
             sig \in userSigs, walletId \in {Len(wallets) + 1, NoWallet}}

RequestsI ==
    \/ \E q \in PrepareRequestsI :
          /\ Len(wallets) < MaxPrepared
          /\ PrepareSwap(q[1], q[2], q[3], TRUE)
    \/ \E walletId \in DOMAIN wallets :
          /\ Cardinality(userSigs) < MaxDeposits
          /\ UserDeposit(walletId, MIN_SWAP_AMOUNT + TRANSACTION_FEE_RESERVE)
    \/ \E q \in InitiateRequestsI, recoveryKey \in IssuedKeys \cup {NoKey} :
          /\ Len(calls) < MaxCalls
          /\ InitiateBegin(q[1], q[2], q[3], q[4], q[5], recoveryKey)

StepsI ==
    \E c \in DOMAIN calls, dbOk \in BOOLEAN :
        \/ InitiateInsert(c, dbOk)
        \/ InitiateGetDepositCount(c, dbOk)
        \/ InitiateInitializeRecovery(c, dbOk)
        \/ InitiateIncrement(c, dbOk)

NextI == RequestsI \/ StepsI

SpecInitiate == Init /\ [][NextI]_vars

----------------------------------------------------------------------------
(* Properties of the coordinator and of the registry.                       *)

\* The run whose step was the last thing to happen.
LastRun == IF last.op = "run" THEN {last.run} ELSE {}

\* C1: whenever a coordinator run for a swap S the monitor selected finishes
\* successfully, the registry record of S (the transaction_id issued at
\* initiate) has status completed, a final signature, a completed_at stamp and
\* the steps of that run.
C1_RunCompletesRecord ==
    \A r \in LastRun :
        runs[r].pc = "done" =>
            LET s == SwapOf(swaps, runs[r].row)
            IN  /\ s.status = "completed"
                /\ s.final_tx_signature # NoSig
                /\ s.completed_at # NoTime
                /\ s.steps = runs[r].steps

\* C2: whenever a coordinator run for a swap S aborts, the registry record of S
\* ends with status failed and a non-empty error_message (and the run, being
\* at its end, moves no further funds).
C2_AbortFailsRecord ==
    \A r \in LastRun :
        runs[r].pc = "failed" =>
            LET s == SwapOf(swaps, runs[r].row)
            IN  /\ s.status = "failed"
                /\ s.error_message # ""

StatusDag == {<<"pending", "processing">>, <<"processing", "completed">>,
              <<"processing", "failed">>, <<"pending", "recovered">>}

\* C3: the status of a swap changes only along pending -> processing,
\* processing -> completed, processing -> failed and pending -> recovered; a
\* completed, failed or recovered swap keeps its status.
C3_StatusDag ==
    [][\A i \in DOMAIN swaps :
          \/ swaps'[i].status = swaps[i].status
          \/ <<swaps[i].status, swaps'[i].status>> \in StatusDag]_vars

\* C3's case: a recovery has just changed the status of a pending swap while a
\* coordinator run for it was under way.
C3_Witness ==
    /\ last.op = "executeRecovery"
    /\ last.success
    /\ last.before.status = "pending"
    /\ last.runBegun
    /\ SwapOf(swaps, last.tid).status = "recovered"

\* C4: once a coordinator run for a swap has begun, no executeRecovery for that
\* swap submits a transfer from its first intermediate wallet or sets the
\* status recovered.
C4_NoRecoveryOnceRunning ==
    (last.op = "executeRecovery" /\ last.runBegun) =>
        /\ ~last.success
        /\ last.sent = 0
        /\ SwapOf(swaps, last.tid).status = last.before.status

\* C17: when a run completes, what its final transfer brought to the
\* destination and to the relayer fee wallet differs from the amount of the
\* swap by at most OBFUSCATION_RANGE for each note.
C17_DeliveredWithinJitter ==
    (/\ last.op = "run"
     /\ last.ok
     /\ runs[last.run].pc = "done")
    => LET run == runs[last.run]
           delivered == last.sent + last.sentFee
           bound == Len(run.splits) * OBFUSCATION_RANGE
       IN  /\ run.amount - delivered <= bound
           /\ delivered - run.amount <= bound

\* The step a run recorded last.
LastStep(r) == runs[r].steps[Len(runs[r].steps)]

\* C18: the amount recorded in a step is the lamports its transaction moved
\* from the step's `from` wallet to its `to` address.
C18_StepAmountIsAmountMoved ==
    (last.op = "run" /\ last.ok)
    => LET steps == runs[last.run].steps
       IN  steps[Len(steps)].amount = last.sent

\* C20: every transfer a run has made and seen confirmed (its steps from the
\* second on; the first is the user's deposit) is among the steps the registry
\* holds for the swap, while the run goes on and after it has failed.
C20_ConfirmedStepsArePersisted ==
    \A r \in DOMAIN runs :
        \A k \in DOMAIN runs[r].steps \ {1} :
            \E i \in DOMAIN swaps :
                /\ swaps[i].transaction_id \in {runs[r].row, runs[r].transactionId}
                /\ \E j \in DOMAIN swaps[i].steps : swaps[i].steps[j] = runs[r].steps[k]

\* C19: when a run has completed, of the enhanced service or of the basic one,
\* every intermediate wallet that is the `from` of one of its steps is marked
\* used (is_active = false).
C19_SendingWalletsAreUsed ==
    \A r \in DOMAIN runs :
        runs[r].pc = "done"
        => \A k \in DOMAIN runs[r].steps :
              runs[r].steps[k].from \in DOMAIN wallets
              => ~wallets[runs[r].steps[k].from].is_active

\* A run of the enhanced service has completed with two notes and two final
\* hops: ten steps, nine of them out of eight intermediate wallets.
C19_Witness ==
    \E r \in DOMAIN runs :
        /\ runs[r].pc = "done"
        /\ Len(runs[r].splits) = 2
        /\ runs[r].finalHops = 2
        /\ Len(runs[r].steps) = 10
        /\ Cardinality({runs[r].steps[k].from : k \in 2 .. 10}) = 8

----------------------------------------------------------------------------
(* Properties of the control surface.                                       *)

\* The initiate requests that have been answered with success.
SucceededCalls == {c \in DOMAIN calls : calls[c].pc = "done"}

\* C21: the deposit counter never decreases; a step changes it only when an
\* initiate request succeeds, and then by one; so that, however the requests
\* interleave, it counts the initiates that succeeded, and a request that is
\* rejected or that fails leaves it as it was.
C21_CounterCountsInitiates ==
    /\ [](depositCounter = Cardinality(SucceededCalls))
    /\ [][/\ depositCounter' >= depositCounter
          /\ depositCounter' = depositCounter
                 + (IF last'.op = "initiate" /\ last'.status = 200 THEN 1 ELSE 0)]_vars

\* Two requests have succeeded that were served at the same time (the second
\* one inserted its swap before the first), and a third has failed.
C21_Witness ==
    /\ Len(calls) = 3
    /\ calls[1].pc = "done"
    /\ calls[2].pc = "done"
    /\ calls[2].transactionId < calls[1].transactionId
    /\ calls[3].pc = "failed"
    /\ depositCounter = 2

\* A request the handlers are to reject: a field is absent, an address does
\* not parse, the amount is no positive number or is below MIN_SWAP.
InvalidFields(sourceWallet, destinationWallet, amount) ==
    \/ sourceWallet \in {NoAddr, BadAddr}
    \/ destinationWallet \in {NoAddr, BadAddr}
    \/ amount \in {0, NotANumber}
    \/ amount < MIN_SWAP_AMOUNT

InvalidRequest(request) ==
    \/ InvalidFields(request[1], request[2], request[3])
    \/ Len(request) = 5 /\ (request[4] = NoSig \/ request[5] = NoWallet)

\* C24: a prepare or initiate request that fails validation is answered 400
\* and changes nothing (no wallet, no swap, no recovery record, no call, the
\* counter as it was); a request with valid fields and an amount of MIN_SWAP or
\* more is not rejected by validation (initiate may still answer 400 for an
\* unknown source transaction).
C24_InvalidRequestChangesNothing ==
    [][(last'.op \in {"prepare", "initiate", "initiateBegin"} /\ last'.status \in {0, 200, 400}
        /\ last' # last /\ "request" \in DOMAIN last')
       => IF InvalidRequest(last'.request)
          THEN /\ last'.status = 400
               /\ UNCHANGED <<clock, uuidNext, config, wallets, balance, txCount,
                              userSigs, swaps, recovery, depositCounter, windows,
                              ticks, runs, calls>>
          ELSE \/ last'.status # 400
               \/ /\ Len(last'.request) = 5
                  /\ last'.request[4] \notin userSigs]_vars

\* A prepare of exactly MIN_SWAP has allocated a wallet.
C24_Witness ==
    /\ last.op = "prepare"
    /\ last.ok
    /\ last.request = <<SourceAddr, DestNew, MIN_SWAP_AMOUNT>>
    /\ Len(wallets) = 1

\* C22: without a treasury, a swap whose first intermediate wallet holds
\* exactly the swap amount is failed once the monitor has examined it; and a
\* step of a run transfers a note only to a wallet that has been primed: the
\* receiving wallet holds the minimum funding amount besides what the step
\* sent it.
C22_UnprimedRunAborts ==
    /\ (/\ last.op = "process"
        /\ last.visible
        /\ ~config.treasury
        /\ balance[SwapOf(swaps, last.tid).intermediate_wallet_id]
              = SwapOf(swaps, last.tid).amount_sol)
       => SwapOf(swaps, last.tid).status = "failed"
    /\ (/\ last.op = "run"
        /\ last.ok
        /\ LastStep(last.run).to \in DOMAIN wallets)
       => balance[LastStep(last.run).to] - last.sent >= MinimumFundingAmount

\* C23: for every completed run, the relayer fee taken off the amount that
\* reaches the destination is the relayer_fee stored on the swap record at
\* initiate: the final step records the running amount less the stored fee.
C23_StoredRelayerFeeIsPaid ==
    \A r \in DOMAIN runs :
        runs[r].pc = "done"
            => LastStep(r).amount = runs[r].currentAmount - swaps[runs[r].row].relayer_fee

\* C26: the configuration hash is determined by, and sensitive to, every
\* immutable constant: two builds answer with the same hash exactly when they
\* agree on all the constants, MIN_MIXING_NOTES and TRANSACTION_FEE_RESERVE
\* included.
C26_HashTellsBuildsApart ==
    (last.op = "config" /\ last.before # << >>)
        => (last.configHash = last.before[1].configHash
               <=> last.constants = last.before[1].constants)

\* C25: a swap record that initiate has just created references an
\* intermediate wallet that exists and is active, not yet marked used; an
\* initiate that names an inactive wallet creates no swap.
C25_SwapWalletIsActive ==
    (last.op = "initiate" /\ last.ok)
        => /\ SwapOf(swaps, last.tid).intermediate_wallet_id \in DOMAIN wallets
           /\ wallets[SwapOf(swaps, last.tid).intermediate_wallet_id].is_active

\* C27: for every swap with a recovery record, the stored recovery_key_hash
\* is the hash of the recovery key that prepare issued with the swap's
\* intermediate wallet, so that the key check of executeRecovery, which
\* compares the hash of the key presented with the stored hash, passes for the
\* issued key and for no other.
C27_StoredHashIsOfIssuedKey ==
    \A i \in DOMAIN recovery :
        HasSwap(swaps, recovery[i].transaction_id)
            => recovery[i].recovery_key_hash
                  = Sha256(IssuedKey(SwapOf(swaps, recovery[i].transaction_id).intermediate_wallet_id))

----------------------------------------------------------------------------
(* Properties of the deposit monitor.                                       *)

\* C11: each swap is handed to the coordinator at most once: no two calls of
\* executePrivateSwap, by later or by overlapping ticks, are for the same swap.
C11_HandedOverOnce ==
    \A r1, r2 \in DOMAIN runs : runs[r1].row = runs[r2].row => r1 = r2

\* C12: a processPendingTransaction for a swap whose source transaction is not
\* visible, or whose intermediate wallet holds less than amount + fee reserve,
\* changes nothing: the swap record, the wallets, the chain, the runs and the
\* mixing windows stay as they were, whichever tick evaluates the swap.
C12_UnmetChecksTouchNothing ==
    [][(/\ last'.op = "process"
        /\ \/ ~last'.visible
           \/ balance[SwapOf(swaps, last'.tid).intermediate_wallet_id]
                 < SwapOf(swaps, last'.tid).amount_sol + TRANSACTION_FEE_RESERVE)
       => UNCHANGED <<swaps, wallets, balance, txCount, runs, windows, recovery,
                      depositCounter, uuidNext>>]_vars

\* C12's case: two ticks have each evaluated the swap, the second one finding
\* the source transaction visible and the funds short; the swap is pending
\* with no step recorded.
C12_Witness ==
    /\ last.op = "process"
    /\ ~last.admitted
    /\ last.visible
    /\ Len(ticks) = 2
    /\ ticks[1].rows = << >>
    /\ ticks[2].rows = << >>
    /\ runs = << >>
    /\ SwapOf(swaps, last.tid).status = "pending"
    /\ SwapOf(swaps, last.tid).steps = << >>

\* A pending swap whose source transaction is confirmed and whose intermediate
\* wallet holds at least amount + fee reserve.
ReadyForCoordinator(tid) ==
    /\ HasSwap(swaps, tid)
    /\ SwapOf(swaps, tid).status = "pending"
    /\ SwapOf(swaps, tid).source_tx_signature \in userSigs
    /\ balance[SwapOf(swaps, tid).intermediate_wallet_id]
          >= SwapOf(swaps, tid).amount_sol + TRANSACTION_FEE_RESERVE

\* The swaps that are ready and for which no run has begun.  Under SpecStarve
\* a swap leaves this set only by being handed to the coordinator: nothing
\* else changes its status or moves the funds of its wallet.
AwaitingCoordinator ==
    {tid \in SwapIds : ReadyForCoordinator(tid) /\ ~RunBegun(tid)}

\* C13: with the monitor ticking for ever, every pending swap whose source
\* transaction is confirmed and whose wallet holds amount + fee reserve is
\* eventually handed to the coordinator, however many older pending swaps
\* there are: whenever swaps are waiting, a time comes when none is.
C13_ReadySwapIsHandedOver ==
    (AwaitingCoordinator # {}) ~> (AwaitingCoordinator = {})

----------------------------------------------------------------------------
(* Properties of the wallet vault.                                          *)

\* What a wallet holding `bal` lamports can give: its balance less the fee
\* reserve and the rent-exempt minimum.
CallableOf(bal) == Max(0, bal - (TRANSACTION_FEE_RESERVE + RentExemption))

RECURSIVE SumSeq(_)
SumSeq(q) == IF q = << >> THEN 0 ELSE Head(q) + SumSeq(Tail(q))

\* C14: a call of transferFromIntermediate that asks for more than the wallet's
\* callable amount fails and submits no transaction: the wallet's balance is
\* what it was.
C14_OverdrawnTransferFails ==
    (/\ last.op = "transfer"
     /\ last.requested[1] > CallableOf(last.balanceBefore))
    => (/\ ~last.ok
        /\ balance[last.walletId] = last.balanceBefore)

C16_UsedWalletSendsNothing ==
    (/\ last.op \in {"transfer", "transferMultiple", "fund"}
     /\ ~last.activeBefore)
    => (/\ ~last.ok
        /\ balance[last.walletId] = last.balanceBefore)

----------------------------------------------------------------------------
(* Properties of emergency recovery.                                        *)

\* C5: once a recovery has succeeded for a swap, a later executeRecovery for it
\* with the correct key moves no funds.
C5_OneRecoveryTransfer ==
    (/\ last.op = "executeRecovery"
     /\ last.keyOk
     /\ last.before.status = "recovered") =>
        /\ last.sent = 0
        /\ last.received = 0

StatedAvailability(tid) ==
    LET since  == depositCounter - RecoveryOf(recovery, tid).deposit_count_at_creation
        row    == SwapOf(swaps, tid)
        ageSec == (clock - row.created_at) \div 1000
        byThreshold == since >= 50
        byTimeout   == row.status = "pending" /\ ageSec >= 60
    IN  [available |-> byThreshold \/ byTimeout,
         reason    |-> IF byThreshold THEN "threshold"
                       ELSE IF byTimeout THEN "timeout" ELSE "none"]

\* C7: for a swap with a recovery record, checkRecoveryAvailability returns
\* available exactly when the deposits since creation are at least 50 or the
\* swap is pending and at least 60 whole seconds old; the reason is threshold
\* in the first case, timeout when only the second holds, none otherwise.
C7_AvailabilityRule ==
    (last.op = "checkRecovery" /\ HasRecovery(recovery, last.tid)) =>
        /\ last.available = StatedAvailability(last.tid).available
        /\ last.reason = StatedAvailability(last.tid).reason

\* C7's case: a check has just answered timeout for a pending swap that is
\* exactly 60 seconds old.
C7_Witness ==
    /\ last.op = "checkRecovery"
    /\ last.reason = "timeout"
    /\ clock - SwapOf(swaps, last.tid).created_at = 60000

\* The successful initiates after the one that created swap tid.
FurtherInitiates(tid) == Cardinality({t \in SwapIds : t > tid})

\* C8: with the clock below the timeout, after 49 further successful initiates
\* a check of S answers unavailable, and after the 50th it answers available
\* with reason threshold.
C8_FiftyFurtherInitiates ==
    (/\ last.op = "checkRecovery"
     /\ HasRecovery(recovery, last.tid)
     /\ clock - SwapOf(swaps, last.tid).created_at < 60000) =>
        /\ FurtherInitiates(last.tid) <= 49 => ~last.available
        /\ FurtherInitiates(last.tid) = 50 =>
              last.available /\ last.reason = "threshold"

\* C9: once checkRecoveryAvailability has answered available for a swap (the
\* recovery_available flag is set), it answers available until a recovery has
\* been executed.
C9_AvailabilityMonotonic ==
    \A tid \in SwapIds :
        (/\ HasRecovery(recovery, tid)
         /\ RecoveryOf(recovery, tid).recovery_available
         /\ SwapOf(swaps, tid).status # "recovered") =>
            CheckRecoveryAvailability(recovery, swaps, depositCounter, clock, tid).available

\* C9's case: a check answers available again after an earlier one did, with a
\* coordinator run for the swap finished in between.
C9_Witness ==
    /\ last.op = "checkRecovery"
    /\ last.available
    /\ RunBegun(last.tid)
    /\ \E r \in DOMAIN runs : runs[r].row = last.tid /\ Terminal(r)

\* C10: a successful executeRecovery, the first intermediate wallet holding at
\* least amount + fee reserve and no coordinator run begun, delivers exactly
\* amount - relayer_fee to the destination and sets the status recovered.
C10_RecoveryDeliversAmount ==
    (/\ last.op = "executeRecovery"
     /\ last.success
     /\ ~last.runBegun
     /\ last.before.status = "pending"
     /\ last.balanceBefore >= last.before.amount_sol + TRANSACTION_FEE_RESERVE) =>
        /\ last.received = last.before.amount_sol - last.before.relayer_fee
        /\ SwapOf(swaps, last.tid).status = "recovered"

----------------------------------------------------------------------------
(* Properties of the note plan.                                             *)

\* The number of notes by the bands, the quotient taken exactly.
NotesByBand(amount) ==
    IF amount <= 2 * MIN_SPLIT_AMOUNT THEN 1
    ELSE IF amount > LAMPORTS_PER_SOL
         THEN Min(8, amount \div (LAMPORTS_PER_SOL \div 5))
    ELSE IF amount > LAMPORTS_PER_SOL \div 2 THEN 6
    ELSE IF amount > LAMPORTS_PER_SOL \div 10 THEN 4
    ELSE 2

\* C28: the plan of amount A is the one note A when A <= 2 * MIN_SPLIT;
\* otherwise it has min(8, floor(A / 0.2)) notes when A > 1.0, 6 when
\* 0.5 < A <= 1.0, 4 when 0.1 < A <= 0.5 and 2 otherwise, and the number of
\* notes of a split amount lies between 2 and 8.
C28_NoteCountByBand ==
    last.op = "splits"
        => /\ Len(last.splits) = NotesByBand(last.amount)
           /\ last.amount <= 2 * MIN_SPLIT_AMOUNT => last.splits = <<last.amount>>
           /\ last.amount > 2 * MIN_SPLIT_AMOUNT
                 => Len(last.splits) \in MIN_MIXING_NOTES .. MAX_MIXING_NOTES

\* C29: for every split amount, every draw of the percentages and of the
\* shuffle, the notes, each rounded to 9 decimals, sum to the amount within
\* one lamport.
C29_NotesSumToAmount ==
    (last.op = "splits" /\ ShouldSplit(last.amount))
        => /\ SumSeq(last.splits) - last.amount <= 1
           /\ last.amount - SumSeq(last.splits) <= 1

\* C30: for every amount above 2 * MIN_SPLIT and every draw of the
\* percentages, the plan has exactly the number of notes of the band rule and
\* every note, the remainder included, is at least MIN_SPLIT.
C30_NotesAreAtLeastMinimum ==
    (last.op = "splits" /\ ShouldSplit(last.amount))
        => /\ Len(last.splits) = TargetNotes(last.amount)
           /\ \A i \in DOMAIN last.splits : last.splits[i] >= MIN_SPLIT_AMOUNT

\* A plan of four notes in which a split was raised to the minimum.
C30_Witness ==
    /\ last.op = "splits"
    /\ Len(last.splits) = 4
    /\ \E i \in DOMAIN last.splits : last.splits[i] = MIN_SPLIT_AMOUNT
    /\ \E i \in DOMAIN last.splits : last.splits[i] > MIN_SPLIT_AMOUNT

----------------------------------------------------------------------------
(* Properties of the steps of a run.                                        *)

\* The runs that have recorded their final step.
CompletedRuns == {r \in DOMAIN runs : runs[r].pc = "done"}

\* C31, as the specification counts: a completed run of N > 1 notes and H
\* hops has 1 + N + N + (N - 1) + H + 1 steps.
C31_StepsWithOneMergeLess ==
    \A r \in CompletedRuns :
        Len(runs[r].splits) > 1
            => Len(runs[r].steps)
                  = 1 + Len(runs[r].splits) + Len(runs[r].splits)
                      + (Len(runs[r].splits) - 1) + runs[r].finalHops + 1

\* C31: a completed run of N > 1 notes and H hops, H one or two, has
\* 1 (deposit) + N (note deposits) + N (withdrawals) + N (merges, one for
\* every withdrawal wallet) + H (hops) + 1 (final) steps.
C31_StepsOfCompletedRun ==
    \A r \in CompletedRuns :
        Len(runs[r].splits) > 1
            => /\ runs[r].finalHops \in {1, 2}
               /\ Len(runs[r].steps) = 3 * Len(runs[r].splits) + runs[r].finalHops + 2

\* A completed run of eight notes and one hop: 27 steps.
C31_Witness ==
    \E r \in CompletedRuns :
        /\ Len(runs[r].splits) = 8
        /\ runs[r].finalHops = 1
        /\ Len(runs[r].steps) = 27

\* C32: in every run, at every point, the steps recorded so far carry
\* strictly increasing step indices in the order in which they were appended.
C32_StepIndicesIncrease ==
    \A r \in DOMAIN runs :
        \A i, j \in DOMAIN runs[r].steps :
            i < j => runs[r].steps[i].step < runs[r].steps[j].step

----------------------------------------------------------------------------
(* Properties of the mixing windows.                                        *)

\* C33: a mixing window row is never modified after its end time: every step
\* that changes transaction_count or total_amount of a window is taken at a
\* time before the window's end_time.
C33_WindowClosedAfterEnd ==
    [][\A i \in DOMAIN windows :
          windows'[i] # windows[i] => clock < windows[i].end_time]_vars

----------------------------------------------------------------------------
(* Properties of the amount obfuscation.                                    *)

\* C34: for every note value v >= MIN_SPLIT and every draw, the obfuscated
\* amount v' is within OBFUSCATION_RANGE of v and is at least 0.0001 SOL.
C34_ObfuscatedWithinRange ==
    (last.op = "obfuscate" /\ last.amount >= MIN_SPLIT_AMOUNT)
        => /\ last.obfuscated - last.amount <= OBFUSCATION_RANGE
           /\ last.amount - last.obfuscated <= OBFUSCATION_RANGE
           /\ last.obfuscated >= MinObfuscated

\* The least note with an offset just below the range: the sum is rounded up
\* to a whole OBFUSCATION_RANGE above the note.
C34_Witness ==
    /\ last.op = "obfuscate"
    /\ last.amount = MIN_SPLIT_AMOUNT
    /\ last.offset = <<OBFUSCATION_RANGE - 1, SubLamport - 1>>
    /\ last.obfuscated = MIN_SPLIT_AMOUNT + OBFUSCATION_RANGE

----------------------------------------------------------------------------
(* Properties of a run's end.                                               *)

\* The registry statuses at which a swap stays.
TerminalStatuses == {"completed", "failed"}

\* C35: a run that has begun terminates, and the swap it was handed reaches
\* a terminal registry status, completed or failed.
C35_RunEndsAndSwapSettles ==
    (Len(runs) >= 1)
        ~> (/\ Len(runs) >= 1
            /\ Terminal(1)
            /\ SwapOf(swaps, runs[1].row).status \in TerminalStatuses)

----------------------------------------------------------------------------
(* Properties of the marking of wallets within a run.                       *)

\* The wallet from which run r makes its next transfer.
NextSender(r) ==
    LET run == runs[r]
    IN  IF run.pc = "deposit" THEN run.intermediateWalletId
        ELSE IF run.pc = "withdraw" THEN run.poolDeposits[run.i + 1].walletId
        ELSE IF run.pc = "combine" THEN run.withdrawalWallets[run.i + 1].walletId
        ELSE IF run.pc = "combineFirst" THEN run.withdrawalWallets[1].walletId
        ELSE run.currentWalletId

\* The wallets from which run r still has to send funds.
PendingSenders(r) ==
    LET run == runs[r]
        ids(seq, from) == {seq[k].walletId : k \in from .. Len(seq)}
    IN  IF run.pc = "deposit"
        THEN {run.intermediateWalletId} \cup ids(run.poolDeposits, 1)
        ELSE IF run.pc = "withdraw"
        THEN ids(run.poolDeposits, run.i + 1) \cup ids(run.withdrawalWallets, 1)
        ELSE IF run.pc = "combine"
        THEN ids(run.withdrawalWallets, run.i + 1) \cup {run.withdrawalWallets[1].walletId,
                                                         run.combinedWallet}
        ELSE IF run.pc = "combineFirst"
        THEN {run.withdrawalWallets[1].walletId, run.combinedWallet}
        ELSE IF run.pc \in {"hop", "final"} THEN {run.currentWalletId}
        ELSE {}

\* C36: in every run a wallet is marked used only after its outgoing transfer
\* has been confirmed: no wallet from which the run still has to send funds is
\* inactive, and when a transfer fails the run aborts with the sending wallet
\* still active.
C36_MarkedUsedAfterSending ==
    /\ [](\A r \in DOMAIN runs :
             \A w \in PendingSenders(r) : wallets[w].is_active)
    /\ [][\A r \in DOMAIN runs :
             (runs[r].pc \notin {"done", "failed"} /\ runs'[r].pc = "failed")
                => wallets'[NextSender(r)].is_active]_vars

----------------------------------------------------------------------------
(* Properties of swaps without a recovery record.                           *)

\* The swaps that have no recovery record.
UntrackedIds == {tid \in SwapIds : ~HasRecovery(recovery, tid)}

\* C37: a swap initiated without a recovery key has no recovery record, at its
\* creation and at every later time; for such a swap checkRecoveryAvailability
\* answers available = false with reason `none`, and executeRecovery fails and
\* moves no funds, whatever the deposit counter and the age of the swap.
C37_NoKeyNoRecovery ==
    /\ [][(last'.op = "initiate" /\ last'.ok /\ last'.recoveryKey = NoKey)
             => ~HasRecovery(recovery', last'.tid)]_vars
    /\ [][\A tid \in UntrackedIds : ~HasRecovery(recovery', tid)]_vars
    /\ []((last.op = "checkRecovery" /\ last.tid \in UntrackedIds)
             => (~last.available /\ last.reason = "none"))
    /\ []((last.op = "executeRecovery" /\ last.tid \in UntrackedIds)
             => (~last.success /\ last.sent = 0 /\ last.received = 0))
    /\ [][(last'.op = "executeRecovery" /\ last'.tid \in UntrackedIds)
             => (balance' = balance /\ wallets' = wallets /\ swaps' = swaps)]_vars

C37_Witness ==
    /\ last.op = "executeRecovery"
    /\ last.tid \in UntrackedIds
    /\ last.balanceBefore > 0
    /\ last.before.status = "pending"
    /\ TimeoutReached(clock - last.before.created_at)
    /\ depositCounter >= last.tid + EMERGENCY_RECOVERY_THRESHOLD
    /\ ~last.success

----------------------------------------------------------------------------
(* Properties of the swap records taken together.                           *)

\* C38: intermediate wallets and deposits are single-use across swaps: no two
\* swap records name the same intermediate wallet or the same source
\* transaction signature.
C38_WalletAndDepositSingleUse ==
    \A i, j \in DOMAIN swaps :
        i # j => /\ swaps[i].intermediate_wallet_id # swaps[j].intermediate_wallet_id
                 /\ swaps[i].source_tx_signature # swaps[j].source_tx_signature

====
